---- MODULE Spec2Model ----
(***************************************************************************)
(* Preset analyzer: the flattener (extractObjects / traverseObjects), the  *)
(* persisted-store sync coordinator (syncFromS3) and the in-memory loaders *)
(* (loadFromS3, loadPresets).                                              *)
(*                                                                         *)
(* A JavaScript string is modelled as a sequence of one-character strings, *)
(* a JavaScript value as a record tagged by its kind, and a JavaScript     *)
(* object as the ordered sequence of its own entries.                      *)
(***************************************************************************)
EXTENDS Integers, Sequences, FiniteSets, TLC

\* ------------------------------------------------------------------------
\* JavaScript values
\* ------------------------------------------------------------------------
Undefined == [k |-> "undefined"]
Null == [k |-> "null"]
Bool(b) == [k |-> "boolean", b |-> b]
Num(n) == [k |-> "number", n |-> n]
Str(s) == [k |-> "string", s |-> s]
Arr(a) == [k |-> "array", a |-> a]
Obj(p) == [k |-> "object", p |-> p]
Entry(key, val) == [key |-> key, val |-> val]

\* Property names and string literals of the source.
K_fileName == <<"f", "i", "l", "e", "N", "a", "m", "e">>
K_objects == <<"o", "b", "j", "e", "c", "t", "s">>
K_type == <<"t", "y", "p", "e">>
K_body == <<"b", "o", "d", "y">>
K_name == <<"n", "a", "m", "e">>
K_className == <<"c", "l", "a", "s", "s", "N", "a", "m", "e">>
S_group == <<"g", "r", "o", "u", "p">>
S_rect == <<"r", "e", "c", "t">>

\* Truthiness of a value (the `a && b` and `if (a)` tests of the source).
Truthy(v) ==
  CASE v.k = "undefined" -> FALSE
    [] v.k = "null" -> FALSE
    [] v.k = "boolean" -> v.b
    [] v.k = "number" -> v.n # 0
    [] v.k = "string" -> v.s # <<>>
    [] OTHER -> TRUE

Digit(d) == <<"0", "1", "2", "3", "4", "5", "6", "7", "8", "9">>[d + 1]

RECURSIVE NatStr(_)
NatStr(n) == IF n < 10 THEN <<Digit(n)>> ELSE NatStr(n \div 10) \o <<Digit(n % 10)>>

\* String(n) of an integer.
NumStr(n) == IF n < 0 THEN <<"-">> \o NatStr(0 - n) ELSE NatStr(n)

\* Object.entries(v) of a non-null value: the own enumerable entries in order.
Entries(v) ==
  CASE v.k = "object" -> v.p
    [] v.k = "array" -> [i \in 1..Len(v.a) |-> Entry(NumStr(i - 1), v.a[i])]
    [] v.k = "string" -> [i \in 1..Len(v.s) |-> Entry(NumStr(i - 1), Str(<<v.s[i]>>))]
    [] OTHER -> <<>>

HasKey(p, key) == \E i \in 1..Len(p) : p[i].key = key

\* p[key] of an entry sequence, undefined when the key is absent.
Get(p, key) ==
  IF HasKey(p, key)
  THEN p[CHOOSE i \in 1..Len(p) : p[i].key = key].val
  ELSE Undefined

\* p[key] = val: an existing key keeps its place, a new key is appended.
Set(p, key, val) ==
  IF HasKey(p, key)
  THEN [i \in 1..Len(p) |-> IF p[i].key = key THEN Entry(key, val) ELSE p[i]]
  ELSE Append(p, Entry(key, val))

\* v.key for the plain names body / objects / type on a non-null value.
GetProp(v, key) == IF v.k = "object" THEN Get(v.p, key) ELSE Undefined

\* ------------------------------------------------------------------------
\* JSON.stringify
\* ------------------------------------------------------------------------
RECURSIVE QuoteChars(_)
QuoteChars(s) ==
  IF s = <<>> THEN <<>>
  ELSE (IF Head(s) \in {"\"", "\\"} THEN <<"\\", Head(s)>> ELSE <<Head(s)>>)
       \o QuoteChars(Tail(s))

JSONQuote(s) == <<"\"">> \o QuoteChars(s) \o <<"\"">>

RECURSIVE JSONStringify(_)
RECURSIVE JSONItems(_, _)
RECURSIVE JSONMembers(_, _)

JSONItems(a, i) ==
  IF i > Len(a) THEN <<>>
  ELSE (IF i > 1 THEN <<",">> ELSE <<>>)
       \o (IF a[i].k = "undefined" THEN JSONStringify(Null) ELSE JSONStringify(a[i]))
       \o JSONItems(a, i + 1)

JSONMembers(p, i) ==
  IF i > Len(p) THEN <<>>
  ELSE (IF i > 1 THEN <<",">> ELSE <<>>)
       \o JSONQuote(p[i].key) \o <<":">> \o JSONStringify(p[i].val)
       \o JSONMembers(p, i + 1)

JSONStringify(v) ==
  CASE v.k = "null" -> <<"n", "u", "l", "l">>
    [] v.k = "boolean" ->
         IF v.b THEN <<"t", "r", "u", "e">> ELSE <<"f", "a", "l", "s", "e">>
    [] v.k = "number" -> NumStr(v.n)
    [] v.k = "string" -> JSONQuote(v.s)
    [] v.k = "array" -> <<"[">> \o JSONItems(v.a, 1) \o <<"]">>
    [] v.k = "object" -> <<"{">> \o JSONMembers(v.p, 1) \o <<"}">>

\* ------------------------------------------------------------------------
\* Flattener: extractObjects(json, fileName)
\* ------------------------------------------------------------------------
\* The body of `for (const [key, value] of Object.entries(obj))`.
RECURSIVE CleanEntryFrom(_, _, _)
CleanEntryFrom(es, i, cleanEntry) ==
  IF i > Len(es) THEN cleanEntry
  ELSE LET key == es[i].key
           value == es[i].val
       IN IF key = K_objects THEN CleanEntryFrom(es, i + 1, cleanEntry)
          ELSE IF value.k \in {"object", "array"}
          THEN CleanEntryFrom(es, i + 1, Set(cleanEntry, key, Str(JSONStringify(value))))
          ELSE CleanEntryFrom(es, i + 1, Set(cleanEntry, key, value))

CleanEntry(obj, fileName) ==
  CleanEntryFrom(Entries(obj), 1, <<Entry(K_fileName, Str(fileName))>>)

\* traverse(objects): the records pushed, and whether the traversal threw
\* (Object.entries of a null node raises a TypeError).
RECURSIVE Traverse(_, _)
RECURSIVE TraverseFrom(_, _, _)

\* A traversal that pushes the records of the later siblings before those of
\* the node's own subtree.
TraverseFromSiblingsFirst(a, i, fileName) ==
  IF i > Len(a) THEN [recs |-> <<>>, err |-> FALSE]
  ELSE LET obj == a[i] IN
    IF obj.k \in {"null", "undefined"} THEN [recs |-> <<>>, err |-> TRUE]
    ELSE
      LET cleanEntry == CleanEntry(obj, fileName)
          sub == IF GetProp(obj, K_type) = Str(S_group) /\ Truthy(GetProp(obj, K_objects))
                 THEN Traverse(GetProp(obj, K_objects), fileName)
                 ELSE [recs |-> <<>>, err |-> FALSE]
          rest == TraverseFrom(a, i + 1, fileName)
      IN [recs |-> <<cleanEntry>> \o rest.recs \o sub.recs, err |-> sub.err \/ rest.err]

TraverseFrom(a, i, fileName) ==
  IF i > Len(a) THEN [recs |-> <<>>, err |-> FALSE]
  ELSE LET obj == a[i] IN
    IF obj.k \in {"null", "undefined"} THEN [recs |-> <<>>, err |-> TRUE]
    ELSE
      LET cleanEntry == CleanEntry(obj, fileName)
          sub == IF GetProp(obj, K_type) = Str(S_group) /\ Truthy(GetProp(obj, K_objects))
                 THEN Traverse(GetProp(obj, K_objects), fileName)
                 ELSE [recs |-> <<>>, err |-> FALSE]
      IN IF sub.err THEN [recs |-> <<cleanEntry>> \o sub.recs, err |-> TRUE]
         ELSE LET rest == TraverseFrom(a, i + 1, fileName)
              IN [recs |-> <<cleanEntry>> \o sub.recs \o rest.recs, err |-> rest.err]

Traverse(objects, fileName) ==
  IF objects.k # "array" THEN [recs |-> <<>>, err |-> FALSE]
  ELSE TraverseFrom(objects.a, 1, fileName)

\* An extractObjects that reads json.body.objects without testing json.body.
ExtractObjectsUnguarded(json, fileName) ==
  IF json.k \in {"null", "undefined"} \/ GetProp(json, K_body).k \in {"null", "undefined"}
  THEN [recs |-> <<>>, err |-> TRUE]
  ELSE LET r == Traverse(GetProp(GetProp(json, K_body), K_objects), fileName)
       IN IF r.err THEN [recs |-> <<>>, err |-> TRUE] ELSE r

\* extractObjects: the records returned, or err when the call throws (the
\* records pushed before the throw are lost with the local `results`).
ExtractObjects(json, fileName) ==
  IF json.k \in {"null", "undefined"} THEN [recs |-> <<>>, err |-> TRUE]
  ELSE LET body == GetProp(json, K_body) IN
    IF Truthy(body) /\ Truthy(GetProp(body, K_objects))
    THEN LET r == Traverse(GetProp(body, K_objects), fileName)
         IN IF r.err THEN [recs |-> <<>>, err |-> TRUE] ELSE r
    ELSE [recs |-> <<>>, err |-> FALSE]

\* The body of the try of loadPresets for one parsed file: traverseObjects
\* pushes into the results of the caller, so what is pushed before a throw
\* stays.
ParsePreset(json, file) ==
  IF json.k \in {"null", "undefined"} THEN [recs |-> <<>>, err |-> TRUE]
  ELSE LET body == GetProp(json, K_body) IN
    IF Truthy(body) /\ Truthy(GetProp(body, K_objects))
    THEN Traverse(GetProp(body, K_objects), file)
    ELSE [recs |-> <<>>, err |-> FALSE]

\* a || null
OrNull(v) == IF Truthy(v) THEN v ELSE Null

\* The entry that traverseObjects of the first local-folder server builds: a
\* fixed set of fields and the list of the node's keys.
EntryV1(obj, fileName) ==
  LET own == Entries(obj)
      conrolTitle == GetProp(obj, <<"c", "o", "n", "r", "o", "l", "T", "i", "t", "l", "e">>)
      controlTitle == GetProp(obj, <<"c", "o", "n", "t", "r", "o", "l", "T", "i", "t", "l", "e">>)
  IN <<Entry(K_fileName, Str(fileName)),
       Entry(<<"c", "o", "n", "t", "r", "o", "l", "T", "i", "t", "l", "e">>,
             IF Truthy(conrolTitle) THEN conrolTitle ELSE OrNull(controlTitle)),
       Entry(K_type, OrNull(GetProp(obj, K_type))),
       Entry(K_className, OrNull(GetProp(obj, K_className))),
       Entry(K_name, OrNull(GetProp(obj, K_name))),
       Entry(<<"i", "d">>, OrNull(GetProp(obj, <<"i", "d">>))),
       Entry(<<"h", "a", "s", "A", "d", "d", "i", "t", "i", "o", "n", "a", "l",
               "M", "e", "d", "i", "a">>,
             Bool(HasKey(own, <<"a", "d", "d", "i", "t", "i", "o", "n", "a", "l",
                                "M", "e", "d", "i", "a">>))),
       Entry(<<"h", "a", "s", "I", "s", "A", "d", "d", "i", "t", "i", "o", "n", "a", "l",
               "M", "e", "d", "i", "a">>,
             Bool(HasKey(own, <<"i", "s", "A", "d", "d", "i", "t", "i", "o", "n", "a", "l",
                                "M", "e", "d", "i", "a">>))),
       Entry(<<"p", "r", "o", "p", "e", "r", "t", "i", "e", "s">>,
             Arr([i \in 1..Len(own) |-> Str(own[i].key)]))>>

\* traverseObjects(objects, fileName, results) of the first local-folder
\* server: the entries pushed, and whether it threw (on a null node).
RECURSIVE TraverseObjectsV1(_, _)
RECURSIVE TraverseV1From(_, _, _)

TraverseV1From(a, i, fileName) ==
  IF i > Len(a) THEN [recs |-> <<>>, err |-> FALSE]
  ELSE LET obj == a[i] IN
    IF obj.k \in {"null", "undefined"} THEN [recs |-> <<>>, err |-> TRUE]
    ELSE
      LET entry == EntryV1(obj, fileName)
          sub == IF GetProp(obj, K_type) = Str(S_group) /\ Truthy(GetProp(obj, K_objects))
                 THEN TraverseObjectsV1(GetProp(obj, K_objects), fileName)
                 ELSE [recs |-> <<>>, err |-> FALSE]
      IN IF sub.err THEN [recs |-> <<entry>> \o sub.recs, err |-> TRUE]
         ELSE LET rest == TraverseV1From(a, i + 1, fileName)
              IN [recs |-> <<entry>> \o sub.recs \o rest.recs, err |-> rest.err]

TraverseObjectsV1(objects, fileName) ==
  IF objects.k # "array" THEN [recs |-> <<>>, err |-> FALSE]
  ELSE TraverseV1From(objects.a, 1, fileName)

\* The body of the try of loadAllPresets for one parsed file.
ParsePresetV1(json, file) ==
  IF json.k \in {"null", "undefined"} THEN [recs |-> <<>>, err |-> TRUE]
  ELSE LET body == GetProp(json, K_body) IN
    IF Truthy(body) /\ Truthy(GetProp(body, K_objects))
    THEN TraverseObjectsV1(GetProp(body, K_objects), file)
    ELSE [recs |-> <<>>, err |-> FALSE]

\* ------------------------------------------------------------------------
\* String helpers (startsWith / endsWith / includes)
\* ------------------------------------------------------------------------
StartsWith(s, pre) == Len(s) >= Len(pre) /\ SubSeq(s, 1, Len(pre)) = pre

EndsWith(s, suf) ==
  Len(s) >= Len(suf) /\ SubSeq(s, Len(s) - Len(suf) + 1, Len(s)) = suf

Includes(s, sub) ==
  \E i \in 1..(Len(s) - Len(sub) + 1) : SubSeq(s, i, i + Len(sub) - 1) = sub

\* ------------------------------------------------------------------------
\* Query engine (in memory): filterObjects and selectColumns
\* ------------------------------------------------------------------------
UpperLetters ==
  <<"A", "B", "C", "D", "E", "F", "G", "H", "I", "J", "K", "L", "M",
    "N", "O", "P", "Q", "R", "S", "T", "U", "V", "W", "X", "Y", "Z">>

LowerLetters ==
  <<"a", "b", "c", "d", "e", "f", "g", "h", "i", "j", "k", "l", "m",
    "n", "o", "p", "q", "r", "s", "t", "u", "v", "w", "x", "y", "z">>

LowerChar(c) ==
  IF \E i \in 1..Len(UpperLetters) : UpperLetters[i] = c
  THEN LowerLetters[CHOOSE i \in 1..Len(UpperLetters) : UpperLetters[i] = c]
  ELSE c

\* s.toLowerCase()
ToLowerCase(s) == [i \in 1..Len(s) |-> LowerChar(s[i])]

\* String(v) of a value a Flat Record holds.
JSString(v) ==
  CASE v.k = "string" -> v.s
    [] v.k = "number" -> NumStr(v.n)
    [] v.k = "boolean" ->
         IF v.b THEN <<"t", "r", "u", "e">> ELSE <<"f", "a", "l", "s", "e">>
    [] v.k = "null" -> <<"n", "u", "l", "l">>
    [] v.k = "undefined" -> <<"u", "n", "d", "e", "f", "i", "n", "e", "d">>

\* A filter { property, operator, value } as the request body carries it.
Filter(property, operator, value) ==
  [property |-> property, operator |-> operator, value |-> value]

Op_includes == <<"i", "n", "c", "l", "u", "d", "e", "s">>
Op_not_includes == <<"n", "o", "t", "_">> \o Op_includes
Op_equals == <<"e", "q", "u", "a", "l", "s">>
Op_not_equals == <<"n", "o", "t", "_">> \o Op_equals
Op_exists == <<"e", "x", "i", "s", "t", "s">>
Op_not_exists == <<"n", "o", "t", "_">> \o Op_exists

\* obj[property] for a property name of the request.
Prop(obj, property) ==
  IF property.k = "string" THEN Get(obj, property.s) ELSE Undefined

\* A callback that rejects the record on a filter with an empty property or
\* an empty value.
FilterMatchesRejectsEmpty(obj, filter) ==
  IF ~Truthy(filter.property) \/ ~Truthy(filter.value) THEN FALSE
  ELSE
    LET objValue == Prop(obj, filter.property) IN
    IF objValue.k \in {"null", "undefined"}
    THEN filter.operator \in {Str(Op_not_includes), Str(Op_not_equals)}
    ELSE
      LET strValue == ToLowerCase(JSString(objValue))
          searchValue == ToLowerCase(filter.value.s)
      IN CASE filter.operator = Str(Op_includes) -> Includes(strValue, searchValue)
           [] filter.operator = Str(Op_not_includes) -> ~Includes(strValue, searchValue)
           [] filter.operator = Str(Op_equals) -> strValue = searchValue
           [] filter.operator = Str(Op_not_equals) -> strValue # searchValue
           [] filter.operator = Str(Op_exists) -> HasKey(obj, filter.property.s)
           [] filter.operator = Str(Op_not_exists) -> ~HasKey(obj, filter.property.s)
           [] OTHER -> TRUE

\* A callback that compares the strings as they are, without toLowerCase.
FilterMatchesCaseSensitive(obj, filter) ==
  IF ~Truthy(filter.property) \/ ~Truthy(filter.value) THEN TRUE
  ELSE
    LET objValue == Prop(obj, filter.property) IN
    IF objValue.k \in {"null", "undefined"}
    THEN filter.operator \in {Str(Op_not_includes), Str(Op_not_equals)}
    ELSE
      LET strValue == JSString(objValue)
          searchValue == filter.value.s
      IN CASE filter.operator = Str(Op_includes) -> Includes(strValue, searchValue)
           [] filter.operator = Str(Op_not_includes) -> ~Includes(strValue, searchValue)
           [] filter.operator = Str(Op_equals) -> strValue = searchValue
           [] filter.operator = Str(Op_not_equals) -> strValue # searchValue
           [] filter.operator = Str(Op_exists) -> HasKey(obj, filter.property.s)
           [] filter.operator = Str(Op_not_exists) -> ~HasKey(obj, filter.property.s)
           [] OTHER -> TRUE

\* The callback of filters.every in filterObjects of the preset parser.
FilterMatches(obj, filter) ==
  IF ~Truthy(filter.property) \/ ~Truthy(filter.value) THEN TRUE
  ELSE
    LET objValue == Prop(obj, filter.property) IN
    IF objValue.k \in {"null", "undefined"}
    THEN filter.operator \in {Str(Op_not_includes), Str(Op_not_equals)}
    ELSE
      LET strValue == ToLowerCase(JSString(objValue))
          searchValue == ToLowerCase(filter.value.s)
      IN CASE filter.operator = Str(Op_includes) -> Includes(strValue, searchValue)
           [] filter.operator = Str(Op_not_includes) -> ~Includes(strValue, searchValue)
           [] filter.operator = Str(Op_equals) -> strValue = searchValue
           [] filter.operator = Str(Op_not_equals) -> strValue # searchValue
           [] filter.operator = Str(Op_exists) -> HasKey(obj, filter.property.s)
           [] filter.operator = Str(Op_not_exists) -> ~HasKey(obj, filter.property.s)
           [] OTHER -> TRUE

\* A filterObjects that leaves out the first of the records that match.
FilterObjectsSkipsFirst(objects, filters) ==
  IF ~Truthy(filters) \/ Len(filters.a) = 0 THEN objects
  ELSE LET kept == SelectSeq(objects, LAMBDA obj :
                     \A i \in 1..Len(filters.a) : FilterMatches(obj, filters.a[i]))
       IN IF kept = <<>> THEN kept ELSE Tail(kept)

\* A filterObjects that keeps a record as soon as one filter matches.
FilterObjectsAnyOf(objects, filters) ==
  IF ~Truthy(filters) \/ Len(filters.a) = 0 THEN objects
  ELSE SelectSeq(objects, LAMBDA obj :
         \E i \in 1..Len(filters.a) : FilterMatches(obj, filters.a[i]))

\* filterObjects(objects, filters) of the preset parser (six operators).
FilterObjects(objects, filters) ==
  IF ~Truthy(filters) \/ Len(filters.a) = 0 THEN objects
  ELSE SelectSeq(objects, LAMBDA obj :
         \A i \in 1..Len(filters.a) : FilterMatches(obj, filters.a[i]))

\* filters.filter(f => f.property && f.value)
ValidFilters(filters) ==
  SelectSeq(filters.a, LAMBDA f : Truthy(f.property) /\ Truthy(f.value))

\* The callback of validFilters.every in the includes-only filterObjects.
IncludesMatches(obj, filter) ==
  LET objValue == Prop(obj, filter.property) IN
  IF objValue.k \in {"null", "undefined"} THEN FALSE
  ELSE Includes(ToLowerCase(JSString(objValue)), ToLowerCase(filter.value.s))

\* filterObjects(objects, filters) of the in-memory S3 server and of the
\* earlier preset parser (implicit "includes").
FilterObjectsIncludes(objects, filters) ==
  IF ~Truthy(filters) \/ Len(filters.a) = 0 THEN objects
  ELSE LET validFilters == ValidFilters(filters) IN
       IF Len(validFilters) = 0 THEN objects
       ELSE SelectSeq(objects, LAMBDA obj :
              \A i \in 1..Len(validFilters) : IncludesMatches(obj, validFilters[i]))

\* The row built by `for (const col of columns) row[col] = obj[col]`.
RECURSIVE RowFrom(_, _, _, _)
RowFrom(obj, columns, i, row) ==
  IF i > Len(columns) THEN row
  ELSE RowFrom(obj, columns, i + 1, Set(row, columns[i], Get(obj, columns[i])))

\* selectColumns(objects, columns)
SelectColumns(objects, columns) ==
  IF ~Truthy(columns) \/ Len(columns.a) = 0 THEN objects
  ELSE [j \in 1..Len(objects) |-> RowFrom(objects[j], columns.a, 1, <<>>)]

K_conrolTitle == <<"c", "o", "n", "r", "o", "l", "T", "i", "t", "l", "e">>

\* The columns taken as they were sent, with no default.
SelectedColumnsAsSent(columns) == IF Truthy(columns) THEN columns ELSE Arr(<<>>)

\* columns && columns.length > 0 ? columns : ['fileName', 'conrolTitle', ...]
SelectedColumns(columns) ==
  IF Truthy(columns) /\ Len(columns.a) > 0 THEN columns
  ELSE Arr(<<K_fileName, K_conrolTitle, K_type, K_className>>)

K_controlTitle == <<"c", "o", "n", "t", "r", "o", "l", "T", "i", "t", "l", "e">>
K_properties == <<"p", "r", "o", "p", "e", "r", "t", "i", "e", "s">>
K_controlTitleContains == K_controlTitle \o <<"C", "o", "n", "t", "a", "i", "n", "s">>
K_hasProperty == <<"h", "a", "s", "P", "r", "o", "p", "e", "r", "t", "y">>
K_typeEquals == <<"t", "y", "p", "e", "E", "q", "u", "a", "l", "s">>

\* array.includes(v), array.some and array.every over the elements
ArrayIncludes(arr, v) == \E i \in 1..Len(arr.a) : arr.a[i] = v

\* filters.key && filters.key.length > 0
NonEmptyList(filters, key) ==
  Truthy(GetProp(filters, key)) /\ Len(GetProp(filters, key).a) > 0

\* The three filters of POST /api/search of the first local-folder server,
\* applied one after the other to the entries of traverseObjects.
FilterV1(objs, filters) ==
  IF ~Truthy(filters) THEN objs
  ELSE
    LET byTitle ==
          IF NonEmptyList(filters, K_controlTitleContains)
          THEN SelectSeq(objs, LAMBDA obj :
                 /\ Truthy(Get(obj, K_controlTitle))
                 /\ \E i \in 1..Len(GetProp(filters, K_controlTitleContains).a) :
                      Includes(ToLowerCase(Get(obj, K_controlTitle).s),
                               ToLowerCase(GetProp(filters, K_controlTitleContains).a[i].s)))
          ELSE objs
        byProperty ==
          IF NonEmptyList(filters, K_hasProperty)
          THEN SelectSeq(byTitle, LAMBDA obj :
                 \A i \in 1..Len(GetProp(filters, K_hasProperty).a) :
                   ArrayIncludes(Get(obj, K_properties), GetProp(filters, K_hasProperty).a[i]))
          ELSE byTitle
    IN IF NonEmptyList(filters, K_typeEquals)
       THEN SelectSeq(byProperty, LAMBDA obj :
              ArrayIncludes(GetProp(filters, K_typeEquals), Get(obj, K_type)))
       ELSE byProperty

\* The query that the later POST /api/search of the persisted-store server
\* builds. A condition on a field is a value to equal or a regular
\* expression with the option 'i'.
Op_exact == <<"e", "x", "a", "c", "t">>
S_true == <<"t", "r", "u", "e">>
S_false == <<"f", "a", "l", "s", "e">>
DigitChars == {"0", "1", "2", "3", "4", "5", "6", "7", "8", "9"}
RegexSpecials == {".", "*", "+", "?", "^", "$", "{", "}", "(", ")", "|", "[", "]", "\\"}

\* Number(val) of a string of decimal digits
RECURSIVE DigitsValue(_)
DigitsValue(s) ==
  IF Len(s) = 0 THEN 0
  ELSE 10 * DigitsValue(SubSeq(s, 1, Len(s) - 1))
       + (CHOOSE d \in 0..9 : Digit(d) = s[Len(s)])

\* parseValue(val): a boolean, a number, or null for any other text. The
\* values considered are words and strings of decimal digits.
ParseValue(val) ==
  LET lower == ToLowerCase(val) IN
  IF lower = S_true THEN Bool(TRUE)
  ELSE IF lower = S_false THEN Bool(FALSE)
  ELSE IF Len(val) > 0 /\ \A i \in 1..Len(val) : val[i] \in DigitChars
  THEN Num(DigitsValue(val))
  ELSE Null

\* escapeRegex(str): a backslash before each special character
RECURSIVE EscapeRegex(_)
EscapeRegex(str) ==
  IF Len(str) = 0 THEN <<>>
  ELSE (IF Head(str) \in RegexSpecials THEN <<"\\", Head(str)>> ELSE <<Head(str)>>)
       \o EscapeRegex(Tail(str))

\* The condition assigned to query[filter.property].
ConditionOf(filter) ==
  LET parsedValue == ParseValue(filter.value.s) IN
  IF parsedValue # Null THEN [eq |-> parsedValue]
  ELSE IF filter.operator = Str(Op_exact)
  THEN [regex |-> <<"^">> \o EscapeRegex(filter.value.s) \o <<"$">>, options |-> "i"]
  ELSE [regex |-> EscapeRegex(filter.value.s), options |-> "i"]

RECURSIVE BuildQueryFrom(_, _, _)
BuildQueryFrom(filters, i, q) ==
  IF i > Len(filters) THEN q
  ELSE LET filter == filters[i] IN
       IF Truthy(filter.property) /\ Truthy(filter.value)
       THEN BuildQueryFrom(filters, i + 1, Set(q, filter.property.s, ConditionOf(filter)))
       ELSE BuildQueryFrom(filters, i + 1, q)

BuildQuery(filters) ==
  IF Truthy(filters) /\ Len(filters.a) > 0
  THEN BuildQueryFrom(filters.a, 1, <<>>)
  ELSE <<>>

\* ------------------------------------------------------------------------
\* Bounds and input universe
\* ------------------------------------------------------------------------
\* Logical time: every change of the bucket and every sync/refresh request
\* advances the clock; none of them happens at MaxClock.
MaxClock == 4

P_template == <<"t", "e", "m", "p", "l", "a", "t", "e", "_">>
M_school == <<"s", "c", "h", "o", "o", "l", "_">>
X_json == <<".", "j", "s", "o", "n">>

FileA == P_template \o <<"a">> \o X_json
FileB == P_template \o <<"b">> \o X_json
FileS == P_template \o M_school \o <<"c">> \o X_json

\* The object names under the listing prefix, in the bucket's (lexicographic)
\* listing order.
AllNames == <<FileA, FileB, FileS>>
NameSet == {AllNames[i] : i \in 1..Len(AllNames)}

\* {body:{objects:[{type:"group",name:"G",objects:[{type:"rect",className:"Box"}]}]}}
DocGroup ==
  Obj(<<Entry(K_body, Obj(<<Entry(K_objects, Arr(<<
    Obj(<<Entry(K_type, Str(S_group)),
          Entry(K_name, Str(<<"G">>)),
          Entry(K_objects, Arr(<<
            Obj(<<Entry(K_type, Str(S_rect)),
                  Entry(K_className, Str(<<"B", "o", "x">>))>>)>>))>>)>>))>>))>>)

\* {body:{objects:[{type:"rect",fileName:"template_b.json"}]}}
DocOwnName ==
  Obj(<<Entry(K_body, Obj(<<Entry(K_objects, Arr(<<
    Obj(<<Entry(K_type, Str(S_rect)), Entry(K_fileName, Str(FileB))>>)>>))>>))>>)

\* {body:{objects:[{type:"rect"}, null]}}: the traversal throws on the null node
DocNullNode ==
  Obj(<<Entry(K_body, Obj(<<Entry(K_objects, Arr(<<
    Obj(<<Entry(K_type, Str(S_rect))>>), Null>>))>>))>>)

\* {}: no body
DocEmpty == Obj(<<>>)

\* The bodies considered, as JSON.parse returns them.
Contents == {DocGroup, DocOwnName, DocNullNode, DocEmpty}

\* The uploads considered, as <<name, body>>. The object FileS, which the
\* listing filters out, is in the bucket throughout.
Uploads ==
  ({FileA} \X {DocGroup, DocOwnName, DocEmpty}) \cup ({FileB} \X {DocGroup, DocNullNode})

\* ------------------------------------------------------------------------
\* State
\* ------------------------------------------------------------------------
VARIABLES
  variant,       \* which server is running: "mongo", "s3cache" or "local"
  clock,         \* logical time (Date.now / LastModified)
  s3,            \* the bucket: object name -> [lastModified, body]
  objects,       \* collection 'objects': sequence of [src, rec]
  fileMetadata,  \* collection 'fileMetadata': fileName -> document
  metadata,      \* collection 'metadata': the { _id: 'sync' } document or NoDoc
  sync,          \* per request: the locals of a running syncFromS3 call
  cache,         \* "s3cache": the in-memory cache object
  load,          \* "s3cache": per request, the locals of a loadFromS3 call
  dir,           \* "local": the presets folder, file name -> body
  localCache,    \* "local": the cache of getData, or NoDoc for null
  localResp,     \* "local": the answer to the last request
  hist,          \* per request: what the pass saw and did (history only)
  query,         \* the answer to the last search request, or NoDoc
  call,          \* the arguments of the last call of a pure function, or NoDoc
  ret,           \* what that call returned
  statusResp,    \* "s3cache": the answer to the last status request, or NoDoc
  client         \* the page in the browser: its state and its requests in flight

vars ==
  <<variant, clock, s3, objects, fileMetadata, metadata, sync, cache, load,
    dir, localCache, localResp, hist, query, call, ret, statusResp, client>>

mongoVars == <<objects, fileMetadata, metadata, sync>>
cacheVars == <<cache, load>>
localVars == <<dir, localCache, localResp>>
ioVars == <<query, call, ret, statusResp, client>>

Procs == {1, 2}
NoDoc == [k |-> "none"]
EmptyMap == [n \in {} |-> NoDoc]

\* f with key n bound to v.
MapPut(f, n, v) == [m \in DOMAIN f \cup {n} |-> IF m = n THEN v ELSE f[m]]
MapWithout(f, S) == [m \in DOMAIN f \ S |-> f[m]]

SyncIdle ==
  [pc |-> "idle", token |-> 0, s3Files |-> <<>>, filesToSync |-> <<>>,
   filesToDelete |-> {}, i |-> 0, objs |-> <<>>, processedCount |-> 0,
   totalObjects |-> 0, objectCount |-> 0, fileCount |-> 0]

HistIdle ==
  [preObjects |-> <<>>, preFiles |-> EmptyMap, preSync |-> NoDoc,
   listing |-> <<>>, failed |-> {}, flat |-> EmptyMap, loaded |-> FALSE,
   hasLast |-> FALSE, lastListing |-> <<>>, lastFailed |-> {}, threw |-> "none"]

\* The value of the record's fileName property, as the store matches it.
RecFileName(rec) == Get(rec, K_fileName)

\* Stored records whose fileName property is the string n.
StoredUnder(objs, n) == SelectSeq(objs, LAMBDA o : RecFileName(o.rec) = Str(n))

\* Stored records that were produced by flattening the file n.
ProducedFrom(objs, n) == SelectSeq(objs, LAMBDA o : o.src = n)

Recs(objs) == [i \in 1..Len(objs) |-> objs[i].rec]

\* ------------------------------------------------------------------------
\* getAllPropertyNames
\* ------------------------------------------------------------------------
\* The characters of the property names, in the order of their code units.
CodeUnits ==
  <<"0", "1", "2", "3", "4", "5", "6", "7", "8", "9",
    "A", "B", "C", "D", "E", "F", "G", "H", "I", "J", "K", "L", "M", "N", "O", "P",
    "Q", "R", "S", "T", "U", "V", "W", "X", "Y", "Z", "_",
    "a", "b", "c", "d", "e", "f", "g", "h", "i", "j", "k", "l", "m", "n", "o", "p",
    "q", "r", "s", "t", "u", "v", "w", "x", "y", "z">>

CodeUnit(c) == CHOOSE i \in 1..Len(CodeUnits) : CodeUnits[i] = c

\* a < b as the default comparison of Array.prototype.sort orders two strings:
\* by code units, a proper prefix first.
RECURSIVE StringBefore(_, _)
StringBefore(a, b) ==
  IF b = <<>> THEN FALSE
  ELSE IF a = <<>> THEN TRUE
  ELSE IF Head(a) = Head(b) THEN StringBefore(Tail(a), Tail(b))
  ELSE CodeUnit(Head(a)) < CodeUnit(Head(b))

\* propertySet.add(key) for the keys of every object, in the order of the
\* first insertion.
RECURSIVE AddKeys(_, _)
AddKeys(propertySet, keys) ==
  IF keys = <<>> THEN propertySet
  ELSE AddKeys(IF \E i \in 1..Len(propertySet) : propertySet[i] = Head(keys)
               THEN propertySet ELSE Append(propertySet, Head(keys)),
               Tail(keys))

RECURSIVE PropertySet(_)
PropertySet(objs) ==
  IF objs = <<>> THEN <<>>
  ELSE AddKeys(PropertySet(SubSeq(objs, 1, Len(objs) - 1)),
               [i \in 1..Len(objs[Len(objs)]) |-> objs[Len(objs)][i].key])

\* names.sort()
RECURSIVE SortStrings(_)
SortStrings(names) ==
  IF names = <<>> THEN <<>>
  ELSE LET least == CHOOSE i \in 1..Len(names) :
                      \A j \in 1..Len(names) : ~StringBefore(names[j], names[i])
       IN <<names[least]>>
            \o SortStrings(SubSeq(names, 1, least - 1) \o SubSeq(names, least + 1, Len(names)))

\* getAllPropertyNames without the sort: the names in insertion order.
GetAllPropertyNamesUnsorted(objs) == PropertySet(objs)

\* getAllPropertyNames(objs)
GetAllPropertyNames(objs) == SortStrings(PropertySet(objs))

\* ------------------------------------------------------------------------
\* The bucket (external collaborator)
\* ------------------------------------------------------------------------
InitBucket == MapPut(EmptyMap, FileS, [lastModified |-> 0, body |-> DocGroup])

\* An upload: the object gets the current time as its LastModified.
S3Put(n, body) ==
  /\ variant # "local"
  /\ clock < MaxClock
  /\ clock' = clock + 1
  /\ s3' = MapPut(s3, n, [lastModified |-> clock + 1, body |-> body])
  /\ UNCHANGED <<variant, ioVars, objects, fileMetadata, metadata, sync, hist, cacheVars, localVars>>

S3Delete(n) ==
  /\ variant # "local"
  /\ n \in DOMAIN s3
  /\ clock < MaxClock
  /\ clock' = clock + 1
  /\ s3' = MapWithout(s3, {n})
  /\ UNCHANGED <<variant, ioVars, objects, fileMetadata, metadata, sync, hist, cacheVars, localVars>>

\* ------------------------------------------------------------------------
\* listS3Files: one ListObjectsV2 page per step
\* ------------------------------------------------------------------------
PageSize == 2

\* The name filter of the listing loop.
NameMatches(fileName) ==
  /\ StartsWith(fileName, P_template)
  /\ ~Includes(fileName, M_school)
  /\ EndsWith(fileName, X_json)

\* Positions (in listing order) of the objects present after the token.
After(token) == {j \in (token + 1)..Len(AllNames) : AllNames[j] \in DOMAIN s3}

\* The positions returned by the next page.
PageOf(token) ==
  {j \in After(token) : Cardinality({h \in After(token) : h < j}) < PageSize}

IsTruncated(token) == After(token) # PageOf(token)

SetMax(S) == CHOOSE m \in S : \A j \in S : j <= m

\* The filtered entries of a page, pushed in listing order.
RECURSIVE PageFiles(_, _)
PageFiles(S, from) ==
  IF from > Len(AllNames) THEN <<>>
  ELSE IF from \in S /\ NameMatches(AllNames[from])
  THEN <<[fileName |-> AllNames[from], lastModified |-> s3[AllNames[from]].lastModified]>>
       \o PageFiles(S, from + 1)
  ELSE PageFiles(S, from + 1)

\* ------------------------------------------------------------------------
\* syncFromS3 (persisted-store variant), one step per await
\* ------------------------------------------------------------------------
Running(p) == sync[p].pc \notin {"idle", "done", "error"}

\* Mutant of BeginSync: the pass empties the collection before it lists.
BeginSyncClearing(p) ==
  /\ variant = "mongo"
  /\ ~Running(p)
  /\ clock < MaxClock
  /\ clock' = clock + 1
  /\ objects' = <<>>
  /\ sync' = [sync EXCEPT ![p] = [SyncIdle EXCEPT !.pc = "listing"]]
  /\ hist' = [hist EXCEPT ![p] =
       [HistIdle EXCEPT !.preObjects = objects, !.preFiles = fileMetadata,
                        !.preSync = metadata, !.hasLast = hist[p].hasLast,
                        !.lastListing = hist[p].lastListing,
                        !.lastFailed = hist[p].lastFailed]]
  /\ UNCHANGED <<variant, ioVars, s3, fileMetadata, metadata, cacheVars, localVars>>

\* A request reaches the POST /api/sync handler, which calls syncFromS3.
BeginSync(p) ==
  /\ variant = "mongo"
  /\ ~Running(p)
  /\ clock < MaxClock
  /\ clock' = clock + 1
  /\ sync' = [sync EXCEPT ![p] = [SyncIdle EXCEPT !.pc = "listing"]]
  /\ hist' = [hist EXCEPT ![p] =
       [HistIdle EXCEPT !.preObjects = objects, !.preFiles = fileMetadata,
                        !.preSync = metadata, !.hasLast = hist[p].hasLast,
                        !.lastListing = hist[p].lastListing,
                        !.lastFailed = hist[p].lastFailed]]
  /\ UNCHANGED <<variant, ioVars, s3, objects, fileMetadata, metadata, cacheVars, localVars>>

\* The client sends its next sync request after the previous one was answered.
StartSync == BeginSync(1)

\* await s3Client.send(ListObjectsV2Command): a page is pushed, or the call
\* rejects and syncFromS3 rejects with it.
ListPage(p) ==
  /\ sync[p].pc = "listing"
  /\ \/ /\ sync' = [sync EXCEPT ![p].pc = "error"]
        /\ UNCHANGED hist
     \/ LET l == sync[p]
            files == l.s3Files \o PageFiles(PageOf(l.token), 1)
        IN IF IsTruncated(l.token)
           THEN /\ sync' = [sync EXCEPT ![p].s3Files = files,
                                        ![p].token = SetMax(PageOf(l.token))]
                /\ UNCHANGED hist
           ELSE /\ sync' = [sync EXCEPT ![p].s3Files = files, ![p].pc = "readMeta"]
                /\ hist' = [hist EXCEPT ![p].listing = files]
  /\ UNCHANGED <<variant, ioVars, clock, s3, objects, fileMetadata, metadata, cacheVars, localVars>>

\* Mutant of FilesToSync: the change marker is not compared.
FilesToSyncNewOnly(s3Files, existing) ==
  SelectSeq(s3Files, LAMBDA f : f.fileName \notin DOMAIN existing)

\* The files of the listing that have no stored metadata or another marker.
FilesToSync(s3Files, existing) ==
  SelectSeq(s3Files, LAMBDA f :
    \/ f.fileName \notin DOMAIN existing
    \/ existing[f.fileName].lastModified # f.lastModified)

\* The stored file names that the listing lacks.
FilesToDelete(s3Files, existing) ==
  DOMAIN existing \ {s3Files[j].fileName : j \in 1..Len(s3Files)}

\* await fileMetadata.find({}).toArray(), then the Diff.
ReadMeta(p) ==
  /\ sync[p].pc = "readMeta"
  /\ LET l == sync[p]
         toSync == FilesToSync(l.s3Files, fileMetadata)
         toDelete == FilesToDelete(l.s3Files, fileMetadata)
     IN sync' = [sync EXCEPT ![p].filesToSync = toSync,
                             ![p].filesToDelete = toDelete,
                             ![p].i = 1,
                             ![p].pc = IF toDelete # {} THEN "deleteObjects"
                                       ELSE IF toSync = <<>> THEN "countObjects"
                                       ELSE "fileDelete"]
  /\ UNCHANGED <<variant, ioVars, clock, s3, objects, fileMetadata, metadata, hist, cacheVars, localVars>>

\* await objects.deleteMany({ fileName: { $in: filesToDelete } })
DeleteObjects(p) ==
  /\ sync[p].pc = "deleteObjects"
  /\ objects' = SelectSeq(objects, LAMBDA o :
       \A n \in sync[p].filesToDelete : RecFileName(o.rec) # Str(n))
  /\ sync' = [sync EXCEPT ![p].pc = "deleteMeta"]
  /\ UNCHANGED <<variant, ioVars, clock, s3, fileMetadata, metadata, hist, cacheVars, localVars>>

\* await fileMetadata.deleteMany({ fileName: { $in: filesToDelete } })
DeleteMeta(p) ==
  /\ sync[p].pc = "deleteMeta"
  /\ fileMetadata' = MapWithout(fileMetadata, sync[p].filesToDelete)
  /\ sync' = [sync EXCEPT ![p].pc =
       IF sync[p].filesToSync = <<>> THEN "countObjects" ELSE "fileDelete"]
  /\ UNCHANGED <<variant, ioVars, clock, s3, objects, metadata, hist, cacheVars, localVars>>

\* The locals after an iteration of the file loop ended (normally or in catch).
AfterFile(l) ==
  [l EXCEPT !.i = l.i + 1, !.objs = <<>>,
            !.pc = IF l.i + 1 > Len(l.filesToSync) THEN "countObjects" ELSE "fileDelete"]

CurrentFile(p) == sync[p].filesToSync[sync[p].i]

\* await objects.deleteMany({ fileName: file.fileName })
FileDelete(p) ==
  /\ sync[p].pc = "fileDelete"
  /\ objects' = SelectSeq(objects, LAMBDA o :
       RecFileName(o.rec) # Str(CurrentFile(p).fileName))
  /\ sync' = [sync EXCEPT ![p].pc = "download"]
  /\ UNCHANGED <<variant, ioVars, clock, s3, fileMetadata, metadata, hist, cacheVars, localVars>>

\* downloadFromS3(key) can resolve when the object is there; it rejects when
\* the request fails, the object is gone or the body is not JSON text.
CanDownload(n) == n \in DOMAIN s3

\* Mutant of Download: a throw is not caught and ends the pass.
DownloadNoCatch(p) ==
  /\ sync[p].pc = "download"
  /\ LET n == CurrentFile(p).fileName IN
     \/ /\ sync' = [sync EXCEPT ![p].pc = "error"]
        /\ hist' = [hist EXCEPT ![p].failed = @ \cup {n}]
     \/ /\ CanDownload(n)
        /\ LET r == ExtractObjects(s3[n].body, n) IN
           IF r.err
           THEN /\ sync' = [sync EXCEPT ![p].pc = "error"]
                /\ hist' = [hist EXCEPT ![p].failed = @ \cup {n}]
           ELSE /\ sync' = [sync EXCEPT ![p].objs = r.recs,
                     ![p].pc = IF Len(r.recs) > 0 THEN "insert" ELSE "updateMeta"]
                /\ hist' = [hist EXCEPT ![p].flat = MapPut(@, n, r.recs)]
  /\ UNCHANGED <<variant, ioVars, clock, s3, objects, fileMetadata, metadata, cacheVars, localVars>>

\* const json = await downloadFromS3(file.key); extractObjects(json, fileName);
\* any throw lands in the catch of the loop body.
Download(p) ==
  /\ sync[p].pc = "download"
  /\ LET n == CurrentFile(p).fileName IN
     \/ /\ sync' = [sync EXCEPT ![p] = AfterFile(sync[p])]
        /\ hist' = [hist EXCEPT ![p].failed = @ \cup {n}]
     \/ /\ CanDownload(n)
        /\ LET r == ExtractObjects(s3[n].body, n) IN
           IF r.err
           THEN /\ sync' = [sync EXCEPT ![p] = AfterFile(sync[p])]
                /\ hist' = [hist EXCEPT ![p].failed = @ \cup {n}]
           ELSE /\ sync' = [sync EXCEPT ![p].objs = r.recs,
                     ![p].pc = IF Len(r.recs) > 0 THEN "insert" ELSE "updateMeta"]
                /\ hist' = [hist EXCEPT ![p].flat = MapPut(@, n, r.recs)]
  /\ UNCHANGED <<variant, ioVars, clock, s3, objects, fileMetadata, metadata, cacheVars, localVars>>

\* await objects.insertMany(objects)
Insert(p) ==
  /\ sync[p].pc = "insert"
  /\ objects' = objects \o
       [j \in 1..Len(sync[p].objs) |->
          [src |-> CurrentFile(p).fileName, rec |-> sync[p].objs[j]]]
  /\ sync' = [sync EXCEPT ![p].pc = "updateMeta"]
  /\ UNCHANGED <<variant, ioVars, clock, s3, fileMetadata, metadata, hist, cacheVars, localVars>>

\* Mutant of UpdateMeta: the time of the sync is stored as the change marker.
UpdateMetaOwnTime(p) ==
  /\ sync[p].pc = "updateMeta"
  /\ LET file == CurrentFile(p)
         l == sync[p]
     IN /\ fileMetadata' = MapPut(fileMetadata, file.fileName,
             [fileName |-> file.fileName, lastModified |-> clock,
              objectCount |-> Len(l.objs), syncedAt |-> clock])
        /\ sync' = [sync EXCEPT ![p] =
             AfterFile([l EXCEPT !.totalObjects = l.totalObjects + Len(l.objs),
                                 !.processedCount = l.processedCount + 1])]
  /\ UNCHANGED <<variant, ioVars, clock, s3, objects, metadata, hist, cacheVars, localVars>>

\* await fileMetadata.updateOne({ fileName }, { $set: ... }, { upsert: true })
UpdateMeta(p) ==
  /\ sync[p].pc = "updateMeta"
  /\ LET file == CurrentFile(p)
         l == sync[p]
     IN /\ fileMetadata' = MapPut(fileMetadata, file.fileName,
             [fileName |-> file.fileName, lastModified |-> file.lastModified,
              objectCount |-> Len(l.objs), syncedAt |-> clock])
        /\ sync' = [sync EXCEPT ![p] =
             AfterFile([l EXCEPT !.totalObjects = l.totalObjects + Len(l.objs),
                                 !.processedCount = l.processedCount + 1])]
  /\ UNCHANGED <<variant, ioVars, clock, s3, objects, metadata, hist, cacheVars, localVars>>

\* Mutant of CountObjects: the records of this pass are counted, not the
\* collection.
CountObjectsOfPass(p) ==
  /\ sync[p].pc = "countObjects"
  /\ sync' = [sync EXCEPT ![p].objectCount = sync[p].totalObjects,
                          ![p].pc = "countFiles"]
  /\ UNCHANGED <<variant, ioVars, clock, s3, objects, fileMetadata, metadata, hist, cacheVars, localVars>>

\* const objectCount = await objects.countDocuments()
CountObjects(p) ==
  /\ sync[p].pc = "countObjects"
  /\ sync' = [sync EXCEPT ![p].objectCount = Len(objects), ![p].pc = "countFiles"]
  /\ UNCHANGED <<variant, ioVars, clock, s3, objects, fileMetadata, metadata, hist, cacheVars, localVars>>

\* const fileCount = await fileMetadata.countDocuments()
CountFiles(p) ==
  /\ sync[p].pc = "countFiles"
  /\ sync' = [sync EXCEPT ![p].fileCount = Cardinality(DOMAIN fileMetadata),
                          ![p].pc = "writeMeta"]
  /\ UNCHANGED <<variant, ioVars, clock, s3, objects, fileMetadata, metadata, hist, cacheVars, localVars>>

\* await metadata.updateOne({ _id: 'sync' }, { $set: ... }, { upsert: true });
\* syncFromS3 returns and the handler answers.
WriteSyncMeta(p) ==
  /\ sync[p].pc = "writeMeta"
  /\ metadata' = [lastSync |-> clock, fileCount |-> sync[p].fileCount,
                  objectCount |-> sync[p].objectCount]
  /\ sync' = [sync EXCEPT ![p].pc = "done"]
  /\ hist' = [hist EXCEPT ![p].hasLast = TRUE,
                          ![p].lastListing = hist[p].listing,
                          ![p].lastFailed = hist[p].failed]
  /\ UNCHANGED <<variant, ioVars, clock, s3, objects, fileMetadata, cacheVars, localVars>>

\* GET /api/status of the persisted-store variant.
SyncStatus ==
  [fileCount |-> IF metadata = NoDoc THEN 0 ELSE metadata.fileCount,
   objectCount |-> IF metadata = NoDoc THEN 0 ELSE metadata.objectCount,
   lastSync |-> IF metadata = NoDoc THEN Null ELSE Num(metadata.lastSync)]

\* ------------------------------------------------------------------------
\* loadFromS3 and POST /api/refresh (in-memory S3 variant), one step per await
\* ------------------------------------------------------------------------
CacheInit ==
  [objects |-> <<>>, fileCount |-> 0, timestamp |-> Null, loading |-> FALSE,
   error |-> Null]

LoadIdle ==
  [pc |-> "idle", token |-> 0, files |-> <<>>, i |-> 0, allObjects |-> <<>>,
   processed |-> 0, skipped |-> FALSE, resp |-> NoDoc]

E_listing == <<"l", "i", "s", "t">>

LoadRunning(p) == load[p].pc \notin {"idle", "done", "error"}

\* The body of the 200 answer of POST /api/refresh.
RefreshResponse(c) ==
  [status |-> 200, objectCount |-> Len(c.objects), fileCount |-> c.fileCount,
   lastLoaded |-> c.timestamp, properties |-> GetAllPropertyNames(Recs(c.objects))]

\* The cache after `cache.objects = allObjects; ...; cache.loading = false`.
LoadedCache(c, allObjects, files) ==
  [c EXCEPT !.objects = allObjects, !.fileCount = Len(files),
            !.timestamp = Num(clock), !.loading = FALSE]

\* A refresh request arrives (the load at startup is the first of them): the
\* guard of loadFromS3 returns at once when a load is running, and the handler
\* answers from the cache.
BeginRefresh(p) ==
  /\ variant = "s3cache"
  /\ ~LoadRunning(p)
  /\ clock < MaxClock
  /\ clock' = clock + 1
  /\ IF cache.loading
     THEN /\ load' = [load EXCEPT ![p] =
               [LoadIdle EXCEPT !.pc = "done", !.skipped = TRUE,
                                !.resp = RefreshResponse(cache)]]
          /\ UNCHANGED cache
     ELSE /\ cache' = [cache EXCEPT !.loading = TRUE, !.error = Null]
          /\ load' = [load EXCEPT ![p] = [LoadIdle EXCEPT !.pc = "listing"]]
  /\ hist' = [hist EXCEPT ![p] = [HistIdle EXCEPT !.preObjects = cache.objects]]
  /\ UNCHANGED <<variant, ioVars, s3, mongoVars, localVars>>

\* The filtered entries of a page as loadFromS3 pushes them.
LoadPageFiles(S) ==
  LET fs == PageFiles(S, 1) IN [j \in 1..Len(fs) |-> [fileName |-> fs[j].fileName]]

\* Mutant of LoadListPage: the outer catch records the error and rethrows
\* without clearing the flag.
LoadListPageLeavesFlag(p) ==
  /\ load[p].pc = "listing"
  /\ \/ /\ cache' = [cache EXCEPT !.error = Str(E_listing)]
        /\ load' = [load EXCEPT ![p].pc = "error", ![p].resp = [status |-> 500]]
        /\ UNCHANGED hist
     \/ LET l == load[p]
            files == l.files \o LoadPageFiles(PageOf(l.token))
        IN IF IsTruncated(l.token)
           THEN /\ load' = [load EXCEPT ![p].files = files,
                                        ![p].token = SetMax(PageOf(l.token))]
                /\ UNCHANGED <<cache, hist>>
           ELSE /\ hist' = [hist EXCEPT ![p].listing = files]
                /\ IF files = <<>>
                   THEN /\ cache' = LoadedCache(cache, <<>>, files)
                        /\ load' = [load EXCEPT ![p].files = files, ![p].pc = "done",
                             ![p].resp = RefreshResponse(LoadedCache(cache, <<>>, files))]
                   ELSE /\ load' = [load EXCEPT ![p].files = files, ![p].i = 1,
                                                ![p].pc = "download"]
                        /\ UNCHANGED cache
  /\ UNCHANGED <<variant, ioVars, clock, s3, mongoVars, localVars>>

\* await s3Client.send(ListObjectsV2Command) in loadFromS3: a rejection lands
\* in the outer catch, which records the error, clears the flag and rethrows.
LoadListPage(p) ==
  /\ load[p].pc = "listing"
  /\ \/ /\ cache' = [cache EXCEPT !.error = Str(E_listing), !.loading = FALSE]
        /\ load' = [load EXCEPT ![p].pc = "error", ![p].resp = [status |-> 500]]
        /\ UNCHANGED hist
     \/ LET l == load[p]
            files == l.files \o LoadPageFiles(PageOf(l.token))
        IN IF IsTruncated(l.token)
           THEN /\ load' = [load EXCEPT ![p].files = files,
                                        ![p].token = SetMax(PageOf(l.token))]
                /\ UNCHANGED <<cache, hist>>
           ELSE /\ hist' = [hist EXCEPT ![p].listing = files]
                /\ IF files = <<>>
                   THEN /\ cache' = LoadedCache(cache, <<>>, files)
                        /\ load' = [load EXCEPT ![p].files = files, ![p].pc = "done",
                             ![p].resp = RefreshResponse(LoadedCache(cache, <<>>, files))]
                   ELSE /\ load' = [load EXCEPT ![p].files = files, ![p].i = 1,
                                                ![p].pc = "download"]
                        /\ UNCHANGED cache
  /\ UNCHANGED <<variant, ioVars, clock, s3, mongoVars, localVars>>

\* One iteration of `for (const file of files)`: the body is fetched, parsed
\* and flattened, or the throw is caught; after the last file the cache is
\* updated and the handler answers.
LoadDownload(p) ==
  /\ load[p].pc = "download"
  /\ LET l == load[p]
         n == l.files[l.i].fileName
         last == l.i = Len(l.files)
         Step(all, processed) ==
           IF last
           THEN /\ cache' = LoadedCache(cache, all, l.files)
                /\ load' = [load EXCEPT ![p].allObjects = all,
                     ![p].processed = processed, ![p].i = l.i + 1, ![p].pc = "done",
                     ![p].resp = RefreshResponse(LoadedCache(cache, all, l.files))]
           ELSE /\ load' = [load EXCEPT ![p].allObjects = all,
                     ![p].processed = processed, ![p].i = l.i + 1]
                /\ UNCHANGED cache
     IN \/ /\ Step(l.allObjects, l.processed)
           /\ hist' = [hist EXCEPT ![p].failed = @ \cup {n}]
        \/ /\ CanDownload(n)
           /\ LET r == ExtractObjects(s3[n].body, n) IN
              IF r.err
              THEN /\ Step(l.allObjects, l.processed)
                   /\ hist' = [hist EXCEPT ![p].failed = @ \cup {n}]
              ELSE /\ Step(l.allObjects \o
                          [j \in 1..Len(r.recs) |-> [src |-> n, rec |-> r.recs[j]]],
                        l.processed + 1)
                   /\ hist' = [hist EXCEPT ![p].flat = MapPut(@, n, r.recs)]
  /\ UNCHANGED <<variant, ioVars, clock, s3, mongoVars, localVars>>

\* ------------------------------------------------------------------------
\* loadPresets, getData and POST /api/refresh (local-folder variant)
\* ------------------------------------------------------------------------
FileT == <<"a", ".", "t", "x", "t">>

\* The names a folder may hold, in readdir order.
LocalNames == <<FileT, FileA, FileB>>
LocalUploads == Uploads \cup {<<FileT, DocGroup>>}

DirPut(n, body) ==
  /\ variant = "local"
  /\ clock < MaxClock
  /\ clock' = clock + 1
  /\ dir' = MapPut(dir, n, body)
  /\ UNCHANGED <<variant, ioVars, s3, mongoVars, cacheVars, localCache, localResp, hist>>

DirDelete(n) ==
  /\ variant = "local"
  /\ n \in DOMAIN dir
  /\ clock < MaxClock
  /\ clock' = clock + 1
  /\ dir' = MapWithout(dir, {n})
  /\ UNCHANGED <<variant, ioVars, s3, mongoVars, cacheVars, localCache, localResp, hist>>

\* fs.readdirSync(folderPath).filter(file => file.endsWith('.json'))
JsonFiles(d) ==
  SelectSeq(LocalNames, LAMBDA n : n \in DOMAIN d /\ EndsWith(n, X_json))

\* The body of `for (const file of files)` of loadPresets from file i on:
\* traverseObjects pushes into the shared results, so the records pushed
\* before a throw stay.
RECURSIVE LoadFiles(_, _, _, _)
LoadFiles(d, files, i, unreadable) ==
  IF i > Len(files) THEN [objects |-> <<>>, failed |-> {}, flat |-> EmptyMap]
  ELSE
    LET n == files[i]
        rest == LoadFiles(d, files, i + 1, unreadable)
        json == d[n]
        r == IF n \in unreadable THEN [recs |-> <<>>, err |-> TRUE]
             ELSE ParsePreset(json, n)
    IN [objects |-> [j \in 1..Len(r.recs) |-> [src |-> n, rec |-> r.recs[j]]]
                      \o rest.objects,
        failed |-> (IF r.err THEN {n} ELSE {}) \cup rest.failed,
        flat |-> IF r.err THEN rest.flat ELSE MapPut(rest.flat, n, r.recs)]

\* The body of the answer of GET /api/status and POST /api/refresh of the
\* local-folder server: the property names are those kept in the cache.
LocalResponse(c) == [RefreshResponse(c) EXCEPT !.properties = c.properties]

\* The cache that getData builds from the result of loadPresets.
NewCache(data) ==
  [objects |-> data.objects, fileCount |-> data.fileCount, timestamp |-> data.timestamp,
   properties |-> GetAllPropertyNames(Recs(data.objects))]

\* loadPresets(folderPath) when the folder can be read.
LoadPresets(d, unreadable, now) ==
  [objects |-> LoadFiles(d, JsonFiles(d), 1, unreadable).objects,
   fileCount |-> Len(JsonFiles(d)),
   timestamp |-> Num(now)]

\* A handler runs to completion: POST /api/refresh drops the cache first,
\* GET /api/status keeps it; getData loads when there is no cache. readdirSync
\* may throw, and so may readFileSync or JSON.parse for the files of
\* `unreadable`.
LocalRequest(refresh, readdirFails, unreadable) ==
  /\ variant = "local"
  /\ clock < MaxClock
  /\ clock' = clock + 1
  /\ LET c == IF refresh THEN NoDoc ELSE localCache IN
     IF c # NoDoc
     THEN /\ localCache' = c
          /\ localResp' = LocalResponse(c)
          /\ hist' = [hist EXCEPT ![1] = HistIdle]
     ELSE IF readdirFails
     THEN /\ localCache' = c
          /\ localResp' = [status |-> 500]
          /\ hist' = [hist EXCEPT ![1] = HistIdle]
     ELSE LET data == NewCache(LoadPresets(dir, unreadable, clock + 1)) IN
          /\ localCache' = data
          /\ localResp' = LocalResponse(data)
          /\ hist' = [hist EXCEPT ![1] =
               [HistIdle EXCEPT
                  !.loaded = TRUE,
                  !.listing = JsonFiles(dir),
                  !.failed = LoadFiles(dir, JsonFiles(dir), 1, unreadable).failed,
                  !.flat = LoadFiles(dir, JsonFiles(dir), 1, unreadable).flat]]
  /\ UNCHANGED <<variant, ioVars, s3, mongoVars, cacheVars, dir>>

\* GET /api/status of the in-memory S3 server: the answer is read from the
\* cache.
StatusCache ==
  /\ variant = "s3cache"
  /\ statusResp' = [status |-> 200, objectCount |-> Len(cache.objects),
                    fileCount |-> cache.fileCount, lastLoaded |-> cache.timestamp,
                    loading |-> cache.loading, error |-> cache.error,
                    properties |-> IF Len(cache.objects) > 0
                                   THEN GetAllPropertyNames(Recs(cache.objects))
                                   ELSE <<>>]
  /\ UNCHANGED <<variant, query, call, ret, client, clock, s3, mongoVars, hist,
                 cacheVars, localVars>>

\* ------------------------------------------------------------------------
\* POST /api/search of the three servers
\* ------------------------------------------------------------------------
S_RECT == <<"R", "E", "C", "T">>
S_zz == <<"z", "z">>

\* The filters and the columns of the search requests considered. The filter
\* values hold no regular-expression metacharacter.
QueryFilters ==
  {Undefined,
   Arr(<<Filter(Str(K_type), Str(Op_includes), Str(S_RECT))>>),
   Arr(<<Filter(Str(K_name), Str(Op_includes), Str(S_zz))>>)}

QueryColumns == {Arr(<<>>), Arr(<<K_type>>)}

\* .limit(10000)
SafetyLimit == 10000

\* The query object built by `query[filter.property] = { $regex: filter.value,
\* $options: 'i' }` from filter i on: a later filter on a property replaces
\* an earlier one.
RECURSIVE MongoQueryFrom(_, _, _)
MongoQueryFrom(filters, i, q) ==
  IF i > Len(filters) THEN q
  ELSE LET filter == filters[i] IN
       IF Truthy(filter.property) /\ Truthy(filter.value)
       THEN MongoQueryFrom(filters, i + 1, Set(q, filter.property.s, filter.value.s))
       ELSE MongoQueryFrom(filters, i + 1, q)

MongoQuery(filters) ==
  IF Truthy(filters) /\ Len(filters.a) > 0
  THEN MongoQueryFrom(filters.a, 1, <<>>)
  ELSE <<>>

\* find(query): a case-insensitive $regex of plain text matches the string
\* fields that contain it.
MongoMatches(doc, q) ==
  \A i \in 1..Len(q) :
    LET v == Get(doc, q[i].key) IN
    v.k = "string" /\ Includes(ToLowerCase(v.s), ToLowerCase(q[i].val))

\* project({ _id: 0, col: 1, ... }): the chosen fields the document has.
MongoProject(doc, columns) ==
  SelectSeq(doc, LAMBDA e : \E j \in 1..Len(columns) : columns[j] = e.key)

Limit(rows, n) == IF Len(rows) > n THEN SubSeq(rows, 1, n) ELSE rows

\* selectColumns returns its argument, the records themselves, when it is
\* given no column; it builds new rows otherwise.
ReturnsRecords(columns) == ~Truthy(columns) \/ Len(columns.a) = 0

\* The 200 answer of a search; `shared` tells whether the rows handed to
\* res.json are the record objects of the cache (history only).
SearchResponse(selectedColumns, rows, shared) ==
  [status |-> 200, count |-> Len(rows), columns |-> selectedColumns.a,
   results |-> rows, shared |-> shared]

\* The answer of POST /api/search of the persisted-store server over the
\* documents docs of the collection.
AnswerMongo(docs, filters, columns) ==
  LET selectedColumns == SelectedColumns(columns)
      found == SelectSeq(docs, LAMBDA doc : MongoMatches(doc, MongoQuery(filters)))
      results == Limit([j \in 1..Len(found) |->
                          MongoProject(found[j], selectedColumns.a)], SafetyLimit)
  IN SearchResponse(selectedColumns, results, FALSE)

\* The text that a regular expression built by escapeRegex stands for.
RECURSIVE UnescapeRegex(_)
UnescapeRegex(str) ==
  IF Len(str) = 0 THEN <<>>
  ELSE IF Head(str) = "\\" /\ Len(str) > 1
  THEN <<str[2]>> \o UnescapeRegex(SubSeq(str, 3, Len(str)))
  ELSE <<Head(str)>> \o UnescapeRegex(Tail(str))

\* find(query) of the later server on one field: a value condition matches
\* the equal value; a regular expression with the option 'i' matches the
\* strings that contain its text or, between ^ and $, that are its text,
\* letter case apart.
ConditionMatches(v, cond) ==
  IF "eq" \in DOMAIN cond THEN v = cond.eq
  ELSE /\ v.k = "string"
       /\ IF Len(cond.regex) >= 2 /\ Head(cond.regex) = "^"
             /\ cond.regex[Len(cond.regex)] = "$"
          THEN ToLowerCase(v.s) =
                 ToLowerCase(UnescapeRegex(SubSeq(cond.regex, 2, Len(cond.regex) - 1)))
          ELSE Includes(ToLowerCase(v.s), ToLowerCase(UnescapeRegex(cond.regex)))

QueryMatches(doc, q) ==
  \A i \in 1..Len(q) : ConditionMatches(Get(doc, q[i].key), q[i].val)

\* The answer of the later POST /api/search of the persisted-store server
\* over the documents docs of the collection.
AnswerMongoV2(docs, filters, columns) ==
  LET selectedColumns == SelectedColumns(columns)
      found == SelectSeq(docs, LAMBDA doc : QueryMatches(doc, BuildQuery(filters)))
      results == Limit([j \in 1..Len(found) |->
                          MongoProject(found[j], selectedColumns.a)], SafetyLimit)
  IN SearchResponse(selectedColumns, results, FALSE)

\* POST /api/search of the persisted-store server.
SearchMongo(filters, columns) ==
  /\ variant = "mongo"
  /\ query' = AnswerMongo(Recs(objects), filters, columns)
  /\ UNCHANGED <<variant, call, ret, statusResp, client, clock, s3, mongoVars, hist,
               cacheVars, localVars>>

\* The answer of POST /api/search of the in-memory S3 server over the
\* records objs of the cache.
AnswerCache(objs, filters, columns) ==
  IF Len(objs) = 0
  THEN [status |-> 503]
  ELSE LET results == FilterObjectsIncludes(objs, filters)
           selectedColumns == SelectedColumns(columns)
       IN SearchResponse(selectedColumns, SelectColumns(results, selectedColumns),
                         ReturnsRecords(selectedColumns))

\* POST /api/search of the in-memory S3 server.
SearchCache(filters, columns) ==
  /\ variant = "s3cache"
  /\ query' = AnswerCache(Recs(cache.objects), filters, columns)
  /\ UNCHANGED <<variant, call, ret, statusResp, client, clock, s3, mongoVars, hist,
               cacheVars, localVars>>

\* The answer of POST /api/search of the local-folder server over the records
\* objs of getData().
AnswerLocal(objs, filters, columns) ==
  LET results == FilterObjects(objs, filters)
      selectedColumns == SelectedColumns(columns)
  IN SearchResponse(selectedColumns, SelectColumns(results, selectedColumns),
                    ReturnsRecords(selectedColumns))

\* The answer of POST /api/search of the first local-folder server over the
\* entries objs of getObjects(): `columns || [...]` keeps an empty list.
AnswerV1(objs, filters, columns) ==
  LET results == FilterV1(objs, filters)
      selectedColumns == IF Truthy(columns) THEN columns
                         ELSE Arr(<<K_controlTitle, K_type, K_className, K_fileName>>)
      mappedResults == [j \in 1..Len(results) |->
                          RowFrom(results[j], selectedColumns.a, 1, <<>>)]
  IN [status |-> 200, count |-> Len(mappedResults), columns |-> selectedColumns.a,
      results |-> mappedResults]

\* POST /api/search of the local-folder server: getData loads when there is no
\* cache, and a throw of readdirSync ends the request with status 500. What
\* becomes of `client` is said where the request is sent from.
SearchLocal(filters, columns, readdirFails, unreadable) ==
  /\ variant = "local"
  /\ clock < MaxClock
  /\ clock' = clock + 1
  /\ IF localCache = NoDoc /\ readdirFails
     THEN /\ query' = [status |-> 500]
          /\ UNCHANGED localCache
     ELSE LET data == IF localCache # NoDoc THEN localCache
                      ELSE NewCache(LoadPresets(dir, unreadable, clock + 1))
          IN /\ localCache' = data
             /\ query' = AnswerLocal(Recs(data.objects), filters, columns)
  /\ UNCHANGED <<variant, call, ret, statusResp, s3, mongoVars, hist, cacheVars, dir,
               localResp>>

\* ------------------------------------------------------------------------
\* Specification: one of the three servers runs; the persisted-store server
\* is sent one sync request at a time, the in-memory S3 server concurrent
\* refresh requests
\* ------------------------------------------------------------------------
\* The page after its script has run: no result yet, the buttons enabled, no
\* request in flight. The requests are numbered as they are sent, and
\* `lastOf` is the number of the request whose answer the page holds
\* (history only).
ClientInit ==
  [lastResults |-> Null, lastColumns |-> Null, searchDisabled |-> FALSE,
   downloadDisabled |-> FALSE, alert |-> "none", pending |-> <<>>, issued |-> 0,
   table |-> NoDoc, lastOf |-> 0]

Init ==
  /\ variant \in {"mongo", "s3cache", "local"}
  /\ clock = 0
  /\ s3 = InitBucket
  /\ objects = <<>>
  /\ fileMetadata = EmptyMap
  /\ metadata = NoDoc
  /\ sync = [p \in Procs |-> SyncIdle]
  /\ cache = CacheInit
  /\ load = [p \in Procs |-> LoadIdle]
  /\ dir = EmptyMap
  /\ localCache = NoDoc
  /\ localResp = NoDoc
  /\ hist = [p \in Procs |-> HistIdle]
  /\ query = NoDoc
  /\ statusResp = NoDoc
  /\ client = ClientInit
  /\ call = NoDoc
  /\ ret = NoDoc

SyncSteps ==
  \/ \E p \in Procs : ListPage(p)
  \/ \E p \in Procs : ReadMeta(p)
  \/ \E p \in Procs : DeleteObjects(p)
  \/ \E p \in Procs : DeleteMeta(p)
  \/ \E p \in Procs : FileDelete(p)
  \/ \E p \in Procs : Download(p)
  \/ \E p \in Procs : Insert(p)
  \/ \E p \in Procs : UpdateMeta(p)
  \/ \E p \in Procs : CountObjects(p)
  \/ \E p \in Procs : CountFiles(p)
  \/ \E p \in Procs : WriteSyncMeta(p)

Next ==
  \/ \E u \in Uploads : S3Put(u[1], u[2])
  \/ \E n \in {FileA, FileB} : S3Delete(n)
  \/ StartSync
  \/ SyncSteps
  \/ \E p \in Procs : BeginRefresh(p)
  \/ \E p \in Procs : LoadListPage(p)
  \/ \E p \in Procs : LoadDownload(p)
  \/ \E u \in LocalUploads : DirPut(u[1], u[2])
  \/ \E n \in DOMAIN dir : DirDelete(n)
  \/ \E refresh \in BOOLEAN, readdirFails \in BOOLEAN, unreadable \in SUBSET {FileA, FileB} :
       LocalRequest(refresh, readdirFails, unreadable)

Spec == Init /\ [][Next]_vars

\* ------------------------------------------------------------------------
\* Specification: the persisted-store server with two clients whose sync
\* requests may overlap, over a bucket that holds two files
\* ------------------------------------------------------------------------
InitConc ==
  /\ variant = "mongo"
  /\ clock = 0
  /\ s3 = MapPut(MapPut(InitBucket, FileA, [lastModified |-> 0, body |-> DocGroup]),
                 FileB, [lastModified |-> 0, body |-> DocEmpty])
  /\ objects = <<>>
  /\ fileMetadata = EmptyMap
  /\ metadata = NoDoc
  /\ sync = [p \in Procs |-> SyncIdle]
  /\ cache = CacheInit
  /\ load = [p \in Procs |-> LoadIdle]
  /\ dir = EmptyMap
  /\ localCache = NoDoc
  /\ localResp = NoDoc
  /\ hist = [p \in Procs |-> HistIdle]
  /\ query = NoDoc
  /\ statusResp = NoDoc
  /\ client = ClientInit
  /\ call = NoDoc
  /\ ret = NoDoc

\* Each client sends one sync request.
ConcStartSync == \E p \in Procs : sync[p].pc = "idle" /\ BeginSync(p)

NextConc ==
  \/ \E n \in {FileA, FileB} : S3Delete(n)
  \/ ConcStartSync
  \/ SyncSteps

SpecConc == InitConc /\ [][NextConc]_vars

\* ------------------------------------------------------------------------
\* Specification: the servers with search requests arriving at any time
\* ------------------------------------------------------------------------
Search ==
  \E filters \in QueryFilters, columns \in QueryColumns :
    \/ SearchMongo(filters, columns)
    \/ SearchCache(filters, columns)
    \/ \E readdirFails \in BOOLEAN :
         SearchLocal(filters, columns, readdirFails, {}) /\ UNCHANGED client

\* The bucket and the folder hold at most the file FileA.
QueryUploads == {FileA} \X {DocGroup, DocOwnName, DocEmpty}

NextQuery ==
  \/ \E u \in QueryUploads : S3Put(u[1], u[2])
  \/ S3Delete(FileA)
  \/ StartSync
  \/ SyncSteps
  \/ \E p \in Procs : BeginRefresh(p)
  \/ \E p \in Procs : LoadListPage(p)
  \/ \E p \in Procs : LoadDownload(p)
  \/ \E u \in QueryUploads : DirPut(u[1], u[2])
  \/ \E refresh \in BOOLEAN, readdirFails \in BOOLEAN :
       LocalRequest(refresh, readdirFails, {})
  \/ Search

SpecQuery == Init /\ [][NextQuery]_vars

\* ------------------------------------------------------------------------
\* Specification: the two servers that hold the records in memory, with
\* search and status requests arriving at any time
\* ------------------------------------------------------------------------
InitRead == Init /\ variant \in {"s3cache", "local"}

\* The bucket and the folder hold at most the file FileA, with records or
\* without.
ReadUploads == {FileA} \X {DocGroup, DocEmpty}

\* The searches have no filter or one on the type.
ReadFilters == {Undefined, Arr(<<Filter(Str(K_type), Str(Op_includes), Str(S_RECT))>>)}

NextRead ==
  \/ \E u \in ReadUploads : S3Put(u[1], u[2])
  \/ \E p \in Procs : BeginRefresh(p)
  \/ \E p \in Procs : LoadListPage(p)
  \/ \E p \in Procs : LoadDownload(p)
  \/ \E u \in ReadUploads : DirPut(u[1], u[2])
  \/ \E refresh \in BOOLEAN, readdirFails \in BOOLEAN :
       LocalRequest(refresh, readdirFails, {})
  \/ \E filters \in ReadFilters, columns \in QueryColumns : SearchCache(filters, columns)
  \/ \E filters \in ReadFilters, columns \in QueryColumns, readdirFails \in BOOLEAN :
       SearchLocal(filters, columns, readdirFails, {}) /\ UNCHANGED client
  \/ StatusCache

SpecRead == InitRead /\ [][NextRead]_vars

\* ------------------------------------------------------------------------
\* The page in the browser and the local-folder server
\* ------------------------------------------------------------------------
\* The page sends at most MaxRequests search requests.
MaxRequests == 2

\* results.slice(0, previewLimit)
PreviewLimit == 100

\* value ?? '' as the text of a cell
CellText(v) == IF v.k \in {"null", "undefined"} THEN <<>> ELSE JSString(v)

\* displayResults(data) that builds a table row for every result.
DisplayResultsUncapped(data) ==
  IF data.count = 0
  THEN [count |-> 0, head |-> <<>>, body |-> <<>>]
  ELSE [count |-> data.count,
        head |-> data.columns,
        body |-> [i \in 1..Len(data.results) |->
                    [j \in 1..Len(data.columns) |->
                       CellText(Get(data.results[i], data.columns[j]))]]]

\* displayResults(data): the count shown and the table built, with the first
\* PreviewLimit rows.
DisplayResults(data) ==
  IF data.count = 0
  THEN [count |-> 0, head |-> <<>>, body |-> <<>>]
  ELSE [count |-> data.count,
        head |-> data.columns,
        body |-> [i \in 1..(IF Len(data.results) > PreviewLimit THEN PreviewLimit
                            ELSE Len(data.results)) |->
                    [j \in 1..Len(data.columns) |->
                       CellText(Get(data.results[i], data.columns[j]))]]]

\* str.replace(/"/g, '""')
RECURSIVE DoubleQuotes(_)
DoubleQuotes(str) ==
  IF Len(str) = 0 THEN <<>>
  ELSE (IF Head(str) = "\"" THEN <<"\"", "\"">> ELSE <<Head(str)>>)
       \o DoubleQuotes(Tail(str))

\* escapeCSV(value)
EscapeCSV(value) ==
  IF value.k \in {"null", "undefined"} THEN <<>>
  ELSE LET str == JSString(value) IN
       IF \E i \in 1..Len(str) : str[i] \in {",", "\"", "\n"}
       THEN <<"\"">> \o DoubleQuotes(str) \o <<"\"">>
       ELSE str

\* strs.join(',')
RECURSIVE JoinComma(_)
JoinComma(strs) ==
  IF Len(strs) = 0 THEN <<>>
  ELSE IF Len(strs) = 1 THEN strs[1]
  ELSE strs[1] \o <<",">> \o JoinComma(Tail(strs))

\* The texts appended one after the other (computed by halves).
RECURSIVE ConcatAll(_)
ConcatAll(strs) ==
  IF Len(strs) = 0 THEN <<>>
  ELSE IF Len(strs) = 1 THEN strs[1]
  ELSE ConcatAll(SubSeq(strs, 1, Len(strs) \div 2))
       \o ConcatAll(SubSeq(strs, Len(strs) \div 2 + 1, Len(strs)))

\* `csv += values.join(',') + '\n'` for every row.
CSVLines(results, columns) ==
  ConcatAll([i \in 1..Len(results) |->
               JoinComma([j \in 1..Len(columns) |->
                            EscapeCSV(Get(results[i], columns[j]))]) \o <<"\n">>])

\* The text that downloadCSV() puts in the file, NoDoc when it returns at
\* once for want of results or columns.
DownloadCSV(lastResults, lastColumns) ==
  IF ~Truthy(lastResults) \/ ~Truthy(lastColumns) THEN NoDoc
  ELSE JoinComma(lastColumns.a) \o <<"\n">> \o CSVLines(lastResults.a, lastColumns.a)

\* What getFilters() and getColumns() read from the page.
FiltersTyped == {Arr(<<>>), Arr(<<Filter(Str(K_type), Str(Op_includes), Str(S_RECT))>>)}
ColumnsTyped == {Arr(<<>>), Arr(<<K_type>>)}

\* search() that shows the alert for an empty column list and sends the
\* request all the same.
SearchCallAlertsAndSends(filters, columns) ==
  /\ client.alert = "none"
  /\ client.issued < MaxRequests
  /\ client' = [client EXCEPT
                  !.alert = IF Len(columns.a) = 0 THEN "columns" ELSE @,
                  !.searchDisabled = TRUE,
                  !.downloadDisabled = TRUE,
                  !.pending = Append(@, [filters |-> filters, columns |-> columns,
                                         resp |-> NoDoc, n |-> client.issued + 1]),
                  !.issued = @ + 1]
  /\ UNCHANGED <<variant, query, call, ret, statusResp, clock, s3, mongoVars, hist,
                 cacheVars, localVars>>

\* search() up to its await: with no column it shows an alert (which blocks
\* the page until it is closed) and returns; otherwise it disables the two
\* buttons and sends the request.
SearchCall(filters, columns) ==
  /\ client.alert = "none"
  /\ IF Len(columns.a) = 0
     THEN client' = [client EXCEPT !.alert = "columns"]
     ELSE /\ client.issued < MaxRequests
          /\ client' = [client EXCEPT
                          !.searchDisabled = TRUE,
                          !.downloadDisabled = TRUE,
                          !.pending = Append(@, [filters |-> filters, columns |-> columns,
                                                 resp |-> NoDoc,
                                                 n |-> client.issued + 1]),
                          !.issued = @ + 1]
  /\ UNCHANGED <<variant, query, call, ret, statusResp, clock, s3, mongoVars, hist,
                 cacheVars, localVars>>

\* A click on the Search button, which a disabled button does not deliver.
ClickSearch ==
  /\ ~client.searchDisabled
  /\ \E filters \in FiltersTyped, columns \in ColumnsTyped : SearchCall(filters, columns)

\* The Enter key in the columns input.
PressEnter ==
  \E filters \in FiltersTyped, columns \in ColumnsTyped : SearchCall(filters, columns)

\* The user closes the alert.
CloseAlert ==
  /\ client.alert # "none"
  /\ client' = [client EXCEPT !.alert = "none"]
  /\ UNCHANGED <<variant, query, call, ret, statusResp, clock, s3, mongoVars, hist,
                 cacheVars, localVars>>

\* The server handles the i-th request in flight and its answer travels back.
ServerSearch(i) ==
  /\ i \in 1..Len(client.pending)
  /\ client.pending[i].resp = NoDoc
  /\ \E readdirFails \in BOOLEAN :
       SearchLocal(client.pending[i].filters, client.pending[i].columns, readdirFails, {})
  /\ client' = [client EXCEPT !.pending[i].resp = query']

\* The sequence without its i-th element.
Without(seq, i) == SubSeq(seq, 1, i - 1) \o SubSeq(seq, i + 1, Len(seq))

\* search() after its await, for the answer to the i-th request: a 200 answer
\* is stored and displayed; the body of an error answer has no results,
\* columns or count, so they are stored as undefined, displayResults throws
\* and the catch shows an alert. The Search button is enabled again.
ClientReceive(i) ==
  /\ client.alert = "none"
  /\ i \in 1..Len(client.pending)
  /\ client.pending[i].resp # NoDoc
  /\ LET data == client.pending[i].resp IN
     IF data.status = 200
     THEN client' = [client EXCEPT
                       !.lastResults = Arr(data.results),
                       !.lastColumns = Arr(data.columns),
                       !.table = DisplayResults(data),
                       !.downloadDisabled = (data.count = 0),
                       !.searchDisabled = FALSE,
                       !.lastOf = client.pending[i].n,
                       !.pending = Without(@, i)]
     ELSE client' = [client EXCEPT
                       !.lastResults = Undefined,
                       !.lastColumns = Undefined,
                       !.alert = "error",
                       !.searchDisabled = FALSE,
                       !.lastOf = client.pending[i].n,
                       !.pending = Without(@, i)]
  /\ UNCHANGED <<variant, query, call, ret, statusResp, clock, s3, mongoVars, hist,
                 cacheVars, localVars>>

\* The files that the folder may receive.
ClientUploads == {FileA} \X {DocGroup, DocEmpty}

InitClient == Init /\ variant = "local"

NextClient ==
  \/ \E u \in ClientUploads : DirPut(u[1], u[2])
  \/ ClickSearch
  \/ PressEnter
  \/ CloseAlert
  \/ \E i \in 1..MaxRequests : ServerSearch(i)
  \/ \E i \in 1..MaxRequests : ClientReceive(i)

SpecClient == InitClient /\ [][NextClient]_vars

\* ------------------------------------------------------------------------
\* syncFromS3(onProgress) of the later persisted-store server: the pass with
\* its notifications. The observer returns or raises; `threw` records the
\* stage of the notification at which it raised (history only).
\* ------------------------------------------------------------------------
\* GET /api/sync arrives and syncFromS3 notifies 'listing' before its first
\* await.
BeginSyncProgress(p, raises) ==
  /\ variant = "mongo"
  /\ ~Running(p)
  /\ clock < MaxClock
  /\ clock' = clock + 1
  /\ sync' = [sync EXCEPT ![p] =
       [SyncIdle EXCEPT !.pc = IF raises THEN "error" ELSE "listing"]]
  /\ hist' = [hist EXCEPT ![p] =
       [HistIdle EXCEPT !.preObjects = objects, !.preFiles = fileMetadata,
                        !.preSync = metadata, !.hasLast = hist[p].hasLast,
                        !.lastListing = hist[p].lastListing,
                        !.lastFailed = hist[p].lastFailed,
                        !.threw = IF raises THEN "listing" ELSE "none"]]
  /\ UNCHANGED <<variant, ioVars, s3, objects, fileMetadata, metadata, cacheVars, localVars>>

\* await listS3Files(), then the notification of the number of files found.
ListPageProgress(p, raises) ==
  \/ ~raises /\ ListPage(p)
  \/ /\ raises
     /\ sync[p].pc = "listing"
     /\ ~IsTruncated(sync[p].token)
     /\ LET files == sync[p].s3Files \o PageFiles(PageOf(sync[p].token), 1) IN
        /\ sync' = [sync EXCEPT ![p].s3Files = files, ![p].pc = "error"]
        /\ hist' = [hist EXCEPT ![p].listing = files, ![p].threw = "listing"]
     /\ UNCHANGED <<variant, ioVars, clock, s3, objects, fileMetadata, metadata, cacheVars,
                    localVars>>

\* await fileMetadata.find({}).toArray(), the Diff, then the notification
\* 'analyzing'.
ReadMetaProgress(p, raises) ==
  \/ ~raises /\ ReadMeta(p)
  \/ /\ raises
     /\ sync[p].pc = "readMeta"
     /\ sync' = [sync EXCEPT
                   ![p].filesToSync = FilesToSync(sync[p].s3Files, fileMetadata),
                   ![p].filesToDelete = FilesToDelete(sync[p].s3Files, fileMetadata),
                   ![p].pc = "error"]
     /\ hist' = [hist EXCEPT ![p].threw = "analyzing"]
     /\ UNCHANGED <<variant, ioVars, clock, s3, objects, fileMetadata, metadata, cacheVars,
                    localVars>>

\* The notification 'syncing' is due after this file.
ProgressDue(l) ==
  (l.processedCount + 1) % 10 = 0 \/ l.processedCount + 1 = Len(l.filesToSync)

\* await fileMetadata.updateOne(...), the counters, then the notification
\* 'syncing' when it is due: it is inside the try of the loop body, whose
\* catch takes what the observer raises.
UpdateMetaProgress(p, raises) ==
  \/ ~raises /\ UpdateMeta(p)
  \/ /\ raises
     /\ sync[p].pc = "updateMeta"
     /\ ProgressDue(sync[p])
     /\ LET file == CurrentFile(p)
            l == sync[p]
        IN /\ fileMetadata' = MapPut(fileMetadata, file.fileName,
                [fileName |-> file.fileName, lastModified |-> file.lastModified,
                 objectCount |-> Len(l.objs), syncedAt |-> clock])
           /\ sync' = [sync EXCEPT ![p] =
                AfterFile([l EXCEPT !.totalObjects = l.totalObjects + Len(l.objs),
                                    !.processedCount = l.processedCount + 1])]
     /\ hist' = [hist EXCEPT ![p].threw = "syncing"]
     /\ UNCHANGED <<variant, ioVars, clock, s3, objects, metadata, cacheVars, localVars>>

\* await metadata.updateOne(...), then the notification 'complete' and the
\* return of the result.
WriteSyncMetaProgress(p, raises) ==
  \/ ~raises /\ WriteSyncMeta(p)
  \/ /\ raises
     /\ sync[p].pc = "writeMeta"
     /\ metadata' = [lastSync |-> clock, fileCount |-> sync[p].fileCount,
                     objectCount |-> sync[p].objectCount]
     /\ sync' = [sync EXCEPT ![p].pc = "error"]
     /\ hist' = [hist EXCEPT ![p].hasLast = TRUE,
                             ![p].lastListing = hist[p].listing,
                             ![p].lastFailed = hist[p].failed,
                             ![p].threw = "complete"]
     /\ UNCHANGED <<variant, ioVars, clock, s3, objects, fileMetadata, cacheVars, localVars>>

\* The uploads to the bucket during the passes with notifications.
ProgressUploads == {FileA, FileB} \X {DocGroup, DocEmpty}

InitProgress == Init /\ variant = "mongo"

NextProgress ==
  \/ \E u \in ProgressUploads : S3Put(u[1], u[2])
  \/ S3Delete(FileA)
  \/ \E raises \in BOOLEAN : BeginSyncProgress(1, raises)
  \/ \E raises \in BOOLEAN : ListPageProgress(1, raises)
  \/ \E raises \in BOOLEAN : ReadMetaProgress(1, raises)
  \/ DeleteObjects(1)
  \/ DeleteMeta(1)
  \/ FileDelete(1)
  \/ Download(1)
  \/ Insert(1)
  \/ \E raises \in BOOLEAN : UpdateMetaProgress(1, raises)
  \/ CountObjects(1)
  \/ CountFiles(1)
  \/ \E raises \in BOOLEAN : WriteSyncMetaProgress(1, raises)

SpecProgress == InitProgress /\ [][NextProgress]_vars

\* ------------------------------------------------------------------------
\* Specification: one call of a pure function of the flattener or of the
\* query engine, on arguments drawn from a bounded universe
\* ------------------------------------------------------------------------
\* The documents hold at most MaxNodes nodes.
MaxNodes == 3

NodeLabels == {"group", "rect", "plain", "named"}

\* A node with the children kids: a group, a rectangle, a node that lacks
\* `type` and holds a nested value, and a group with a property `fileName` of
\* its own. A node without children has no `objects` property.
Node(label, kids) ==
  LET objs == IF kids = <<>> THEN <<>> ELSE <<Entry(K_objects, Arr(kids))>> IN
  CASE label = "group" ->
         Obj(<<Entry(K_type, Str(S_group)), Entry(K_name, Str(<<"G">>))>> \o objs)
    [] label = "rect" ->
         Obj(<<Entry(K_type, Str(S_rect)), Entry(K_className, Str(<<"B", "o", "x">>))>>
             \o objs)
    [] label = "plain" ->
         Obj(objs \o <<Entry(K_name, Obj(<<Entry(<<"a">>, Num(1))>>))>>)
    [] label = "named" ->
         Obj(<<Entry(K_fileName, Str(FileB)), Entry(K_type, Str(S_group))>> \o objs)

\* The sequences of trees that hold n nodes in all.
RECURSIVE Forests(_)
Forests(n) ==
  IF n = 0 THEN {<<>>}
  ELSE UNION {{<<Node(l, kids)>> \o rest :
                 l \in NodeLabels, kids \in Forests(i), rest \in Forests(n - 1 - i)} :
              i \in 0..(n - 1)}

\* { body: { objects: objs } }
DocOf(objs) == Obj(<<Entry(K_body, Obj(<<Entry(K_objects, objs)>>))>>)

\* Documents without body, without body.objects, or whose body.objects is no
\* array.
MalformedDocs ==
  {Obj(<<>>),
   Obj(<<Entry(K_body, Null)>>),
   Obj(<<Entry(K_body, Str(<<"x">>))>>),
   Obj(<<Entry(K_body, Obj(<<Entry(K_name, Str(<<"G">>))>>))>>),
   DocOf(Null),
   DocOf(Str(<<"x">>)),
   DocOf(Num(1)),
   DocOf(Obj(<<Entry(K_type, Str(S_group))>>))}

FlatDocs ==
  MalformedDocs \cup {DocOf(Arr(f)) : f \in UNION {Forests(n) : n \in 0..MaxNodes}}

\* The calls considered: a flattener applied to a document of FileA.
FlatCalls ==
  [fn : {"extractObjects", "traverseObjects", "traverseObjectsV1"},
   json : FlatDocs, fileName : {FileA}]

\* The filter lists hold at most MaxFilters predicates.
MaxFilters == 2

\* Three records to filter: their types differ in case and one has none.
FilterRecords ==
  <<<<Entry(K_fileName, Str(FileA)), Entry(K_type, Str(<<"R", "E", "C", "T">>)),
      Entry(K_name, Str(<<"B", "o", "x">>))>>,
    <<Entry(K_fileName, Str(FileA)), Entry(K_type, Str(S_group))>>,
    <<Entry(K_fileName, Str(FileA)), Entry(K_name, Null)>>>>

\* The record sets: the sequences without repetition over FilterRecords.
RecordSets ==
  {<<>>} \cup
  UNION {{[i \in 1..n |-> FilterRecords[f[i]]] :
            f \in {g \in [1..n -> 1..Len(FilterRecords)] :
                     \A i, j \in 1..n : i # j => g[i] # g[j]}} :
         n \in 1..Len(FilterRecords)}

\* The predicates: on the type and on the name, with an empty property, with
\* an empty value, and with the operator 'exists'.
Predicates ==
  {Filter(Str(K_type), Str(Op_includes), Str(<<"r">>)),
   Filter(Str(K_type), Str(Op_includes), Str(<<"g">>)),
   Filter(Str(K_type), Str(Op_not_equals), Str(S_rect)),
   Filter(Str(K_name), Str(Op_includes), Str(<<"b", "o">>)),
   Filter(Str(<<>>), Str(Op_includes), Str(<<"g">>)),
   Filter(Str(K_name), Str(Op_equals), Str(<<>>)),
   Filter(Str(K_name), Str(Op_exists), Str(<<"1">>))}

FilterLists ==
  {Undefined} \cup {Arr(l) : l \in UNION {[1..n -> Predicates] : n \in 0..MaxFilters}}

\* The records and the predicates of the calls with one record and one
\* predicate: each operator on a property the record has, has as null, or
\* lacks, with values that differ from the record's in case only, that are a
\* part of it, or that are empty.
K_id == <<"i", "d">>

ProbeRecords ==
  {FilterRecords[i] : i \in 1..Len(FilterRecords)} \cup
  {<<Entry(K_fileName, Str(FileA)), Entry(K_type, Str(S_rect)), Entry(K_id, Num(12))>>}

ProbeOperators ==
  {Op_includes, Op_not_includes, Op_equals, Op_not_equals, Op_exists, Op_not_exists}

ProbePredicates ==
  {Filter(Str(property), Str(operator), Str(value)) :
     property \in {K_type, K_name, K_id, <<>>},
     operator \in ProbeOperators,
     value \in {<<>>, S_rect, S_RECT, <<"e", "c">>, <<"1">>}}

\* The calls of the two in-memory filters.
FilterCalls ==
  [fn : {"filterObjects", "filterObjectsIncludes"},
   objects : RecordSets, filters : FilterLists]
  \cup
  [fn : {"filterObjects", "filterObjectsIncludes"},
   objects : {<<r>> : r \in ProbeRecords},
   filters : {Arr(<<f>>) : f \in ProbePredicates}]

\* Nodes that have a property with the value null, with a string, or not at
\* all.
ProbeNodes ==
  {Obj(<<Entry(K_type, Str(S_rect)), Entry(K_name, Null)>>),
   Obj(<<Entry(K_type, Str(S_rect))>>),
   Obj(<<Entry(K_name, Str(<<"B", "o", "x">>))>>),
   Obj(<<Entry(K_type, Null), Entry(K_controlTitle, Str(<<"B", "o", "x">>))>>)}

\* The existence tests on the record of a node: the hasProperty filter on the
\* entry of the first local-folder server, and exists / not_exists of the
\* six-operator filter on the Flat Record.
ExistenceCalls ==
  [fn : {"hasProperty"}, node : ProbeNodes, property : {K_type, K_name}]
  \cup
  [fn : {"existsOnNode"}, node : ProbeNodes, property : {K_type, K_name},
   operator : {Op_exists, Op_not_exists}]

\* The predicates sent to the persisted-store search: a word, a number, a
\* boolean, a value with a special character, and empty fields.
StorePredicates ==
  {Filter(Str(K_type), Str(Op_includes), Str(S_rect)),
   Filter(Str(K_type), Str(Op_exact), Str(S_RECT)),
   Filter(Str(K_id), Str(Op_exact), Str(<<"1", "2">>)),
   Filter(Str(K_name), Str(Op_includes), Str(<<"a", ".", "b">>)),
   Filter(Str(K_name), Str(Op_includes), Str(<<"T", "r", "u", "e">>)),
   Filter(Str(K_name), Str(Op_exact), Str(<<>>)),
   Filter(Str(<<>>), Str(Op_includes), Str(S_rect))}

QueryCalls ==
  [fn : {"buildQuery"},
   filters : {Undefined} \cup
             {Arr(l) : l \in UNION {[1..n -> StorePredicates] : n \in 0..MaxFilters}}]

\* The calls that filter the result of a filter again with the same filters.
TwiceCalls ==
  [fn : {"filterObjectsTwice", "filterObjectsIncludesTwice"},
   objects : RecordSets, filters : FilterLists]

\* The column lists hold at most MaxColumns names.
MaxColumns == 2

ColumnNames == {K_fileName, K_type, K_name, K_className}

\* The lists of distinct column names, and the empty list.
ColumnLists ==
  {Arr(l) : l \in UNION {{c \in [1..n -> ColumnNames] :
                            \A i, j \in 1..n : i # j => c[i] # c[j]} : n \in 0..MaxColumns}}

\* The projections of a record set on a column list: selectColumns of the
\* in-memory servers and find().project() of the persisted-store server.
ProjectCalls ==
  [fn : {"selectColumns", "mongoProject"}, objects : RecordSets, columns : ColumnLists]

\* The search requests: with or without a filter, with columns, with an empty
\* list of columns and with none; those of the first local-folder server are
\* answered from the entries of its own flattener.
ColumnsSent == {Undefined, Arr(<<>>), Arr(<<K_type>>), Arr(<<K_name, K_type>>)}

SearchCalls ==
  [fn : {"searchLocal", "searchCache", "searchMongo"},
   objects : RecordSets,
   filters : {Undefined, Arr(<<Filter(Str(K_type), Str(Op_includes), Str(<<"r">>))>>)},
   columns : ColumnsSent]
  \cup
  [fn : {"searchV1"},
   objects : {<<>>} \cup {<<EntryV1(n, FileA)>> : n \in ProbeNodes},
   filters : {Undefined, Obj(<<Entry(K_hasProperty, Arr(<<Str(K_type)>>))>>),
              Obj(<<Entry(K_typeEquals, Arr(<<Str(S_rect)>>)),
                    Entry(K_controlTitleContains, Arr(<<Str(<<"b", "o">>)>>))>>)},
   columns : ColumnsSent]

\* The searches of the persisted store over the three records, with lists of
\* predicates of which two may name the same property.
StoreSearchPredicates ==
  {Filter(Str(K_type), Str(Op_includes), Str(<<"r">>)),
   Filter(Str(K_type), Str(Op_includes), Str(<<"e", "c">>)),
   Filter(Str(K_type), Str(Op_includes), Str(<<"g">>)),
   Filter(Str(K_name), Str(Op_includes), Str(<<"b", "o">>)),
   Filter(Str(K_name), Str(Op_includes), Str(<<>>))}

StoreCalls ==
  [fn : {"searchMongo", "searchMongoV2"},
   objects : {FilterRecords},
   filters : {Arr(l) : l \in UNION {[1..n -> StoreSearchPredicates] : n \in 0..MaxFilters}},
   columns : {Undefined}]

\* The answers presented: results of no row, of one row, of PreviewLimit
\* rows and of one row more, with an id and a type in every row.
ResultSizes == {0, 1, PreviewLimit, PreviewLimit + 1}

PresentedRow(i) == <<Entry(K_id, Num(i)), Entry(K_type, Str(S_rect))>>

PresentCalls ==
  [fn : {"present"},
   data : {SearchResponse(Arr(columns), [i \in 1..n |-> PresentedRow(i)], FALSE) :
             n \in ResultSizes, columns \in {<<K_id>>, <<K_type, K_id>>}}]

\* The exports: values with a comma, a double quote and a line feed, a plain
\* word, a number and null, under the columns type and name; the columns as
\* typed plainly and as typed between double quotes.
CSVValues ==
  {Str(<<"a", ",", "b">>), Str(<<"a", "\"", "b">>), Str(<<"a", "\n", "b">>),
   Str(S_rect), Num(12), Null}

CSVRows == {<<Entry(K_type, v), Entry(K_name, w)>> : v \in CSVValues, w \in CSVValues}
           \cup {<<Entry(K_type, v)>> : v \in CSVValues}

CSVColumns ==
  {<<K_type>>, <<K_name, K_type>>, <<<<"\"">> \o K_type \o <<"\"">>, K_name>>}

ExportCalls ==
  [fn : {"downloadCSV"},
   results : {<<>>} \cup {<<r>> : r \in CSVRows}
             \cup {<<r, <<Entry(K_type, Str(S_rect))>>>> : r \in CSVRows},
   columns : CSVColumns]

PureCalls ==
  FlatCalls \cup FilterCalls \cup ExistenceCalls \cup QueryCalls \cup TwiceCalls
  \cup ProjectCalls \cup SearchCalls \cup StoreCalls \cup PresentCalls
  \cup ExportCalls

InitPure ==
  /\ variant = "pure"
  /\ clock = 0
  /\ s3 = InitBucket
  /\ objects = <<>>
  /\ fileMetadata = EmptyMap
  /\ metadata = NoDoc
  /\ sync = [p \in Procs |-> SyncIdle]
  /\ cache = CacheInit
  /\ load = [p \in Procs |-> LoadIdle]
  /\ dir = EmptyMap
  /\ localCache = NoDoc
  /\ localResp = NoDoc
  /\ hist = [p \in Procs |-> HistIdle]
  /\ query = NoDoc
  /\ statusResp = NoDoc
  /\ client = ClientInit
  /\ call \in PureCalls
  /\ ret = NoDoc

Returns(fn, value) ==
  /\ variant = "pure"
  /\ call.fn = fn
  /\ ret = NoDoc
  /\ ret' = value
  /\ UNCHANGED <<variant, query, call, statusResp, client, clock, s3, mongoVars, hist,
               cacheVars, localVars>>

\* extractObjects(json, fileName) of the S3 servers.
CallExtractObjects ==
  Returns("extractObjects", ExtractObjects(call.json, call.fileName))

\* The try body of loadPresets: the body test and traverseObjects.
CallTraverseObjects ==
  Returns("traverseObjects", ParsePreset(call.json, call.fileName))

\* The try body of loadAllPresets of the first local-folder server.
CallTraverseObjectsV1 ==
  Returns("traverseObjectsV1", ParsePresetV1(call.json, call.fileName))

\* filterObjects(objects, filters) of the preset parser (six operators).
CallFilterObjects ==
  Returns("filterObjects",
          [recs |-> FilterObjects(call.objects, call.filters), err |-> FALSE])

\* filterObjects(objects, filters) of the in-memory S3 server.
CallFilterObjectsIncludes ==
  Returns("filterObjectsIncludes",
          [recs |-> FilterObjectsIncludes(call.objects, call.filters), err |-> FALSE])

\* The entry of a node (traverseObjects of the first local-folder server) put
\* through the hasProperty filter of its POST /api/search.
CallHasProperty ==
  Returns("hasProperty",
          [recs |-> FilterV1(<<EntryV1(call.node, FileA)>>,
                             Obj(<<Entry(K_hasProperty, Arr(<<Str(call.property)>>))>>)),
           err |-> FALSE])

\* The Flat Record of a node put through filterObjects with one exists or
\* not_exists predicate.
CallExistsOnNode ==
  Returns("existsOnNode",
          [recs |-> FilterObjects(<<CleanEntry(call.node, FileA)>>,
                      Arr(<<Filter(Str(call.property), Str(call.operator), Str(<<"1">>))>>)),
           err |-> FALSE])

\* The query built from the filters of a search request.
CallBuildQuery ==
  Returns("buildQuery", [query |-> BuildQuery(call.filters), err |-> FALSE])

\* filterObjects(filterObjects(objects, filters), filters) of the preset
\* parser.
CallFilterObjectsTwice ==
  Returns("filterObjectsTwice",
          LET once == FilterObjects(call.objects, call.filters)
          IN [once |-> once, twice |-> FilterObjects(once, call.filters)])

\* The same for the filter of the in-memory S3 server.
CallFilterObjectsIncludesTwice ==
  Returns("filterObjectsIncludesTwice",
          LET once == FilterObjectsIncludes(call.objects, call.filters)
          IN [once |-> once, twice |-> FilterObjectsIncludes(once, call.filters)])

\* selectColumns(objects, columns)
CallSelectColumns ==
  Returns("selectColumns",
          [recs |-> SelectColumns(call.objects, call.columns), err |-> FALSE])

\* find({}).project(projection).toArray() over the stored records, with the
\* projection of the selected columns.
CallMongoProject ==
  Returns("mongoProject",
          [recs |-> [j \in 1..Len(call.objects) |->
                       MongoProject(call.objects[j], SelectedColumns(call.columns).a)],
           err |-> FALSE])

\* The answers of the four search handlers to a request over given records.
CallSearchLocal ==
  Returns("searchLocal", AnswerLocal(call.objects, call.filters, call.columns))

CallSearchCache ==
  Returns("searchCache", AnswerCache(call.objects, call.filters, call.columns))

CallSearchMongo ==
  Returns("searchMongo", AnswerMongo(call.objects, call.filters, call.columns))

CallSearchV1 ==
  Returns("searchV1", AnswerV1(call.objects, call.filters, call.columns))

\* The page receives the answer of a search: search() keeps the results and
\* the columns and displays them, and the user downloads the CSV.
CallPresent ==
  Returns("present",
          [table |-> DisplayResults(call.data),
           csv |-> DownloadCSV(Arr(call.data.results), Arr(call.data.columns)),
           err |-> FALSE])

\* downloadCSV() over the results and the columns kept from a search.
CallDownloadCSV ==
  Returns("downloadCSV",
          [csv |-> DownloadCSV(Arr(call.results), Arr(call.columns)), err |-> FALSE])

CallSearchMongoV2 ==
  Returns("searchMongoV2", AnswerMongoV2(call.objects, call.filters, call.columns))

NextPure ==
  \/ CallExtractObjects
  \/ CallTraverseObjects
  \/ CallTraverseObjectsV1
  \/ CallFilterObjects
  \/ CallFilterObjectsIncludes
  \/ CallHasProperty
  \/ CallExistsOnNode
  \/ CallBuildQuery
  \/ CallFilterObjectsTwice
  \/ CallFilterObjectsIncludesTwice
  \/ CallSelectColumns
  \/ CallMongoProject
  \/ CallSearchLocal
  \/ CallSearchCache
  \/ CallSearchMongo
  \/ CallSearchV1
  \/ CallSearchMongoV2
  \/ CallPresent
  \/ CallDownloadCSV

SpecPure == InitPure /\ [][NextPure]_vars

\* ------------------------------------------------------------------------
\* Vocabulary of the claims about a sync pass
\* ------------------------------------------------------------------------
Range(q) == {q[j] : j \in 1..Len(q)}

\* The pass of p has computed its Diff.
Diffed(p) ==
  sync[p].pc \in {"deleteObjects", "deleteMeta", "fileDelete", "download",
                  "insert", "updateMeta", "countObjects", "countFiles",
                  "writeMeta", "done"}

Listed(p) == {f.fileName : f \in Range(hist[p].listing)}
MarkerOf(p, n) == (CHOOSE f \in Range(hist[p].listing) : f.fileName = n).lastModified
ToSyncNames(p) == {f.fileName : f \in Range(sync[p].filesToSync)}

\* Files of the listing whose stored marker is the listed one.
UnchangedFiles(p) ==
  {n \in Listed(p) :
     n \in DOMAIN hist[p].preFiles /\ hist[p].preFiles[n].lastModified = MarkerOf(p, n)}

\* hist[p].hasLast, lastListing and lastFailed describe the last pass that
\* completed before the pass of p; they are replaced when the pass completes.

\* Files whose download was attempted in the pass.
Fetched(p) == hist[p].failed \cup DOMAIN hist[p].flat

\* C1: after a pass, the records that were stored for a file whose fetch or
\* parse failed in the pass are still in the store.
C1_FailedFileKeepsRecords ==
  \A p \in Procs : sync[p].pc = "done" =>
    \A n \in hist[p].failed :
      Range(StoredUnder(hist[p].preObjects, n)) \subseteq Range(objects)

\* C3: the Diff classifies by name only: to sync iff listed and (not stored or
\* marker differs), to delete iff stored and not listed; the two sets are
\* disjoint and every other file is unchanged.
C3_DiffClassification ==
  \A p \in Procs : Diffed(p) =>
    /\ \A n \in NameSet :
         /\ n \in ToSyncNames(p) <=>
              /\ n \in Listed(p)
              /\ \/ n \notin DOMAIN hist[p].preFiles
                 \/ hist[p].preFiles[n].lastModified # MarkerOf(p, n)
         /\ n \in sync[p].filesToDelete <=>
              (n \in DOMAIN hist[p].preFiles /\ n \notin Listed(p))
    /\ ToSyncNames(p) \cap sync[p].filesToDelete = {}
    /\ Len(sync[p].filesToSync) = Cardinality(ToSyncNames(p))
    /\ (Listed(p) \cup DOMAIN hist[p].preFiles)
         \ (ToSyncNames(p) \cup sync[p].filesToDelete) = UnchangedFiles(p)

\* The Diff has classified a file that has stored metadata with another marker
\* as to sync, and the pass has reached the loop over the files to sync.
C3_Witness ==
  \E p \in Procs :
    /\ Diffed(p)
    /\ \E n \in ToSyncNames(p) : n \in DOMAIN hist[p].preFiles
    /\ sync[p].pc = "fileDelete"

\* C4: a pass leaves an unchanged file untouched: no fetch, and its records
\* and its metadata entry are the same before and after the pass.
C4_UnchangedUntouched ==
  \A p \in Procs : sync[p].pc = "done" =>
    \A n \in UnchangedFiles(p) :
      /\ n \notin Fetched(p)
      /\ ProducedFrom(objects, n) = ProducedFrom(hist[p].preObjects, n)
      /\ StoredUnder(objects, n) = StoredUnder(hist[p].preObjects, n)
      /\ n \in DOMAIN fileMetadata
      /\ fileMetadata[n] = hist[p].preFiles[n]

C6_ResyncExact ==
  \A p \in Procs : sync[p].pc = "done" =>
    \A n \in DOMAIN hist[p].flat :
      /\ Recs(ProducedFrom(objects, n)) = hist[p].flat[n]
      /\ n \in DOMAIN fileMetadata
      /\ fileMetadata[n].lastModified = MarkerOf(p, n)
      /\ fileMetadata[n].objectCount = Len(hist[p].flat[n])

\* C7: after a pass, a file that had metadata before the pass and is not in
\* the listing has neither records nor metadata in the store.
C7_DeletedFileGone ==
  \A p \in Procs : sync[p].pc = "done" =>
    \A n \in DOMAIN hist[p].preFiles \ Listed(p) :
      /\ n \notin DOMAIN fileMetadata
      /\ ProducedFrom(objects, n) = <<>>

\* C8: whenever no pass is running, the status boundary reports the number of
\* metadata entries and of stored records; while a pass runs (or after it
\* failed) it reports what the last completed pass wrote.
C8_SummaryMatchesStore ==
  /\ (\A p \in Procs : ~Running(p)) =>
       /\ SyncStatus.fileCount = Cardinality(DOMAIN fileMetadata)
       /\ SyncStatus.objectCount = Len(objects)
  /\ \A p \in Procs : sync[p].pc = "done" =>
       /\ metadata # NoDoc
       /\ metadata.fileCount = Cardinality(DOMAIN fileMetadata)
       /\ metadata.objectCount = Len(objects)
  /\ \A p \in Procs : (Running(p) \/ sync[p].pc = "error") =>
       metadata = hist[p].preSync

C8_Witness ==
  \E p \in Procs :
    /\ sync[p].pc = "done"
    /\ hist[p].failed # {}
    /\ metadata.objectCount > 0
    /\ metadata.fileCount > 0

\* C9: a failed listing ends the attempt with an error and the store is as it
\* was before the attempt.
C9_ListingFailureLeavesStore ==
  \A p \in Procs : sync[p].pc = "error" =>
    /\ objects = hist[p].preObjects
    /\ fileMetadata = hist[p].preFiles
    /\ metadata = hist[p].preSync

C9_Witness ==
  \E p \in Procs :
    /\ sync[p].pc = "error"
    /\ objects # <<>>
    /\ metadata # NoDoc

\* The records of the files of a listing that were flattened, in file order.
RECURSIVE ConcatFlat(_, _, _)
ConcatFlat(files, i, flat) ==
  IF i > Len(files) THEN <<>>
  ELSE (IF files[i].fileName \in DOMAIN flat THEN flat[files[i].fileName] ELSE <<>>)
       \o ConcatFlat(files, i + 1, flat)

\* C2: a failing file never aborts a bulk pass: syncFromS3, loadFromS3 and
\* loadPresets handle every file of the batch, process every file that does
\* not fail, and end without an error outcome.
C2_FailureDoesNotAbort ==
  /\ \A p \in Procs :
       /\ sync[p].pc = "error" => hist[p].failed = {}
       /\ Diffed(p) =>
            \A j \in 1..Len(sync[p].filesToSync) :
              j < sync[p].i => sync[p].filesToSync[j].fileName \in Fetched(p)
       /\ sync[p].pc = "done" =>
            /\ Fetched(p) = ToSyncNames(p)
            /\ sync[p].processedCount =
                 Len(sync[p].filesToSync) - Cardinality(hist[p].failed)
            /\ \A n \in ToSyncNames(p) \ hist[p].failed :
                 /\ n \in DOMAIN fileMetadata
                 /\ fileMetadata[n].lastModified = MarkerOf(p, n)
  /\ \A p \in Procs :
       /\ load[p].pc = "error" => hist[p].failed = {}
       /\ (load[p].pc = "done" /\ ~load[p].skipped) =>
            /\ load[p].resp.status = 200
            /\ Fetched(p) = Listed(p)
            /\ load[p].processed = Len(load[p].files) - Cardinality(hist[p].failed)
            /\ Recs(load[p].allObjects) = ConcatFlat(load[p].files, 1, hist[p].flat)
  /\ (variant = "local" /\ hist[1].failed # {}) => localResp.status = 200
  /\ (variant = "local" /\ hist[1].loaded) =>
       /\ localCache # NoDoc
       /\ hist[1].failed \cup DOMAIN hist[1].flat = Range(hist[1].listing)
       /\ \A n \in DOMAIN hist[1].flat :
            Recs(ProducedFrom(localCache.objects, n)) = hist[1].flat[n]

\* A file failed and a later file of the same sync pass was processed.
C2_Witness ==
  \E p \in Procs :
    /\ sync[p].pc = "done"
    /\ \E j, h \in 1..Len(sync[p].filesToSync) :
         /\ j < h
         /\ sync[p].filesToSync[j].fileName \in hist[p].failed
         /\ sync[p].filesToSync[h].fileName \in DOMAIN hist[p].flat
         /\ hist[p].flat[sync[p].filesToSync[h].fileName] # <<>>

\* C10: at most one sync or load pass is in flight at a time.
C10_OnePassInFlight ==
  Cardinality({p \in Procs : Running(p)})
    + Cardinality({p \in Procs : LoadRunning(p)}) <= 1

\* ------------------------------------------------------------------------
\* Claims about the in-memory cache and its readers
\* ------------------------------------------------------------------------
\* C11: in the in-memory S3 variant cache.loading is true exactly while a
\* loadFromS3 pass is in flight: it is set when the pass starts and cleared
\* when the pass ends, with success or with a listing failure, so the guard
\* skips a request only while another pass is running.
C11_LoadingOnlyWhileInFlight ==
  variant = "s3cache" =>
    (cache.loading <=> (\E p \in Procs : LoadRunning(p)))

\* A pass ended with a listing failure and a later request of the other
\* client was not skipped: its own pass is downloading.
C11_Witness ==
  /\ variant = "s3cache"
  /\ load[1].pc = "error"
  /\ load[2].pc = "download"
  /\ ~load[2].skipped
  /\ cache.loading

\* The record set a search reads in this state is, for every file, that of
\* the file before the pass in flight or that of the file as the pass has
\* fetched it (none for a file the pass deletes).
AtomicView ==
  /\ variant = "mongo" =>
       \A p \in Procs : Running(p) =>
         \A n \in NameSet :
           LET cur == ProducedFrom(objects, n) IN
             \/ cur = ProducedFrom(hist[p].preObjects, n)
             \/ n \in DOMAIN hist[p].flat /\ Recs(cur) = hist[p].flat[n]
             \/ n \in sync[p].filesToDelete /\ cur = <<>>
  /\ variant = "s3cache" =>
       \A p \in Procs : LoadRunning(p) => cache.objects = hist[p].preObjects

\* C12: a search that is answered while a refresh or sync is in flight reads,
\* for every file, all the records of the previous version or all the records
\* of the new version, never a file whose records are deleted and not yet
\* inserted again.
C12_AtomicSwap == [][query' # query => AtomicView]_vars

\* The loaded data that the status and search handlers of the in-memory
\* servers read.
CacheData == <<cache.objects, cache.fileCount, cache.timestamp>>

\* C13: the record set, file count and load timestamp that later requests see
\* change only in a step that completes a load successfully, so a refresh that
\* fails on the folder or bucket listing leaves those of the last successful
\* load.
C13_FailedRefreshKeepsData ==
  [][/\ (variant = "s3cache" /\ CacheData' # CacheData) =>
          \E p \in Procs :
            LoadRunning(p) /\ load'[p].pc = "done" /\ load'[p].resp.status = 200
     /\ (variant = "local" /\ localCache' # localCache) =>
          /\ localCache' # NoDoc
          /\ localResp' # localResp => localResp'.status = 200
          /\ query' # query => query'.status = 200]_vars

\* A load or a sync pass has completed: loadFromS3 sets cache.timestamp and
\* syncFromS3 writes the Sync Metadata only at the end of a completed pass.
EverLoaded ==
  \/ variant = "mongo" /\ metadata # NoDoc
  \/ variant = "s3cache" /\ cache.timestamp # Null

\* C14: a search of the persisted-store or in-memory S3 server is answered
\* with NotReady (status 503) when no load has completed yet, and with a
\* result set and its count (status 200) when one has.
C14_NotReadyIffNeverLoaded ==
  [][(query' # query /\ variant \in {"mongo", "s3cache"}) =>
       query'.status = (IF EverLoaded THEN 200 ELSE 503)]_vars

\* ------------------------------------------------------------------------
\* Claims about the flattener
\* ------------------------------------------------------------------------
\* A flattener of fns has returned.
Flattened(fns) == variant = "pure" /\ call.fn \in fns /\ ret # NoDoc

\* document.body.objects
TopObjects(json) == GetProp(GetProp(json, K_body), K_objects)

\* A path of child positions names a node that is reached from the array
\* `objects` through the `objects` of nodes of type 'group' only.
RECURSIVE Reachable(_, _)
Reachable(objs, path) ==
  /\ objs.k = "array"
  /\ path[1] \in 1..Len(objs.a)
  /\ \/ Len(path) = 1
     \/ /\ GetProp(objs.a[path[1]], K_type) = Str(S_group)
        /\ Reachable(GetProp(objs.a[path[1]], K_objects), Tail(path))

RECURSIVE NodeAt(_, _)
NodeAt(objs, path) ==
  IF Len(path) = 1 THEN objs.a[path[1]]
  ELSE NodeAt(GetProp(objs.a[path[1]], K_objects), Tail(path))

PathSpace == UNION {[1..k -> 1..MaxNodes] : k \in 1..MaxNodes}

ReachablePaths(json) == {path \in PathSpace : Reachable(TopObjects(json), path)}

\* p comes before q in depth-first pre-order: p is a proper prefix of q, or p
\* turns to an earlier child where the two part.
Before(p, q) ==
  LET m == IF Len(p) < Len(q) THEN Len(p) ELSE Len(q)
      diff == {i \in 1..m : p[i] # q[i]}
  IN IF diff = {} THEN Len(p) < Len(q)
     ELSE LET d == CHOOSE i \in diff : \A j \in diff : i <= j IN p[d] < q[d]

\* The position of the node of path in the pre-order of the nodes of S.
Rank(S, path) == Cardinality({q \in S : Before(q, path)}) + 1

\* The number of nodes reached from the array objs, counted as the code's
\* recursion counts them: one per element plus those below each group.
RECURSIVE CountBelow(_)
CountBelow(objs) ==
  IF objs.k # "array" THEN 0
  ELSE LET a == objs.a
           RECURSIVE Sum(_)
           Sum(i) == IF i > Len(a) THEN 0
                     ELSE 1 + (IF GetProp(a[i], K_type) = Str(S_group)
                               THEN CountBelow(GetProp(a[i], K_objects)) ELSE 0)
                          + Sum(i + 1)
       IN Sum(1)

\* C15: flattening a document gives one record per node reached from
\* body.objects through the objects of 'group' nodes, in depth-first
\* pre-order (a node before its children, children in array order), so a
\* group with k direct children and no deeper groups gives 1 + k records.
C15_PreOrderOneRecordPerNode ==
  Flattened({"extractObjects", "traverseObjects"}) =>
    LET top == TopObjects(call.json)
        S == ReachablePaths(call.json)
    IN /\ ~ret.err
       /\ Len(ret.recs) = Cardinality(S)
       /\ Len(ret.recs) = CountBelow(top)
       /\ \A path \in S :
            ret.recs[Rank(S, path)] = CleanEntry(NodeAt(top, path), call.fileName)

\* A group with one child, followed by a sibling, has been flattened.
C15_Witness ==
  /\ Flattened({"extractObjects"})
  /\ call.json = DocOf(Arr(<<Node("group", <<Node("rect", <<>>)>>), Node("plain", <<>>)>>))
  /\ Len(ret.recs) = 3
  /\ Get(ret.recs[2], K_type) = Str(S_rect)

\* The keys of a sequence of entries.
KeySet(p) == {p[i].key : i \in 1..Len(p)}

\* C16: the key set of every record that flatten produces is {fileName}
\* united with the own keys of its source node minus 'objects'; no record has
\* a key named 'objects'.
C16_KeySetOfRecord ==
  Flattened({"extractObjects", "traverseObjectsV1"}) =>
    LET top == TopObjects(call.json)
        S == ReachablePaths(call.json)
    IN /\ Len(ret.recs) = Cardinality(S)
       /\ \A path \in S :
            LET rec == ret.recs[Rank(S, path)]
            IN /\ ~HasKey(rec, K_objects)
               /\ KeySet(rec) =
                    {K_fileName} \cup (KeySet(Entries(NodeAt(top, path))) \ {K_objects})

\* C17: every record of flatten(document, fileId) has fileName equal to
\* fileId, also when nodes of the document have a property 'fileName' of
\* their own.
C17_FileNameIsFileId ==
  Flattened({"extractObjects", "traverseObjects"}) =>
    \A j \in 1..Len(ret.recs) : Get(ret.recs[j], K_fileName) = Str(call.fileName)

\* C19: a node that lacks 'type' gives a record without a 'type' key, and only
\* the nodes whose type is 'group' are recursed into: the records are those of
\* the nodes reached through groups, so the children of an untyped node give
\* none.
C19_UntypedNodeKeepsTypeAbsent ==
  Flattened({"extractObjects", "traverseObjectsV1"}) =>
    LET top == TopObjects(call.json)
        S == ReachablePaths(call.json)
    IN /\ Len(ret.recs) = Cardinality(S)
       /\ \A path \in S :
            ~HasKey(Entries(NodeAt(top, path)), K_type)
              => ~HasKey(ret.recs[Rank(S, path)], K_type)

\* C18: flatten does not fail on a malformed document: when the document has
\* no body, or the body has no objects, or objects is not an array, the result
\* is the empty sequence and no error is raised.
C18_MalformedGivesEmpty ==
  (Flattened({"extractObjects", "traverseObjects"}) /\ TopObjects(call.json).k # "array")
    => ret = [recs |-> <<>>, err |-> FALSE]

\* The three cases have been flattened: no body, a body without objects, and
\* objects that is a string.
C18_Witness ==
  /\ Flattened({"extractObjects", "traverseObjects"})
  /\ call.json \in {Obj(<<>>), Obj(<<Entry(K_body, Obj(<<Entry(K_name, Str(<<"G">>))>>))>>),
                    DocOf(Str(<<"x">>))}
  /\ ret.recs = <<>>
  /\ ~ret.err

\* ------------------------------------------------------------------------
\* Claims about the in-memory filter
\* ------------------------------------------------------------------------
Filtered(fns) == variant = "pure" /\ call.fn \in fns /\ ret # NoDoc

\* The predicates of a request: none when the list is missing.
PredicatesOf(filters) == IF filters.k = "array" THEN filters.a ELSE <<>>

\* `!property || !value`: the predicate is skipped.
Ignored(filter) == ~Truthy(filter.property) \/ ~Truthy(filter.value)

\* The predicate evaluates true on the record, as the filter of fn evaluates
\* it.
PredicateTrue(fn, obj, filter) ==
  IF fn = "filterObjects" THEN FilterMatches(obj, filter) ELSE IncludesMatches(obj, filter)

\* The positions of the records on which every predicate that is not ignored
\* evaluates true.
Kept(fn, objs, filters) ==
  {i \in 1..Len(objs) :
     \A j \in 1..Len(PredicatesOf(filters)) :
       Ignored(PredicatesOf(filters)[j]) \/ PredicateTrue(fn, objs[i], PredicatesOf(filters)[j])}

\* C20: a record is in the result of filterObjects iff every predicate that is
\* not ignored evaluates true on it, also with several predicates on one
\* property, and the records come in their original order; with an empty or
\* missing list, or with ignored predicates only, the result is the whole
\* record set.
C20_FilterIsConjunction ==
  Filtered({"filterObjects", "filterObjectsIncludes"}) =>
    LET K == Kept(call.fn, call.objects, call.filters)
        ps == PredicatesOf(call.filters)
    IN /\ Len(ret.recs) = Cardinality(K)
       /\ \A i \in K : ret.recs[Cardinality({j \in K : j < i}) + 1] = call.objects[i]
       /\ (\A j \in 1..Len(ps) : Ignored(ps[j])) => ret.recs = call.objects

\* Two predicates on the type have been applied to the three records, and
\* only the record that satisfies both is returned.
C20_Witness ==
  /\ Filtered({"filterObjects"})
  /\ call.objects = FilterRecords
  /\ call.filters = Arr(<<Filter(Str(K_type), Str(Op_includes), Str(<<"r">>)),
                          Filter(Str(K_type), Str(Op_includes), Str(<<"g">>))>>)
  /\ ret.recs = <<FilterRecords[2]>>

\* ------------------------------------------------------------------------
\* Claims about a single predicate
\* ------------------------------------------------------------------------
\* A filter of fns has been applied to one record with one predicate.
Probed(fns) ==
  /\ Filtered(fns)
  /\ Len(call.objects) = 1
  /\ call.filters.k = "array"
  /\ Len(call.filters.a) = 1

ProbeRecord == call.objects[1]
ProbeFilter == call.filters.a[1]

\* The predicate let the record through.
Selected == ret.recs = <<ProbeRecord>>

NegativeOperators == {Str(Op_not_includes), Str(Op_not_exists), Str(Op_not_equals)}

\* C21: when the record has no value for the predicate's property (the
\* property is absent or null), not_includes, not_exists and not_equals
\* evaluate true, and includes, equals and exists evaluate false.
C21_NoValueOperators ==
  (/\ Probed({"filterObjects"})
   /\ ~Ignored(ProbeFilter)
   /\ Prop(ProbeRecord, ProbeFilter.property).k \in {"null", "undefined"})
    => (Selected <=> ProbeFilter.operator \in NegativeOperators)

\* C22: exists and not_exists do not look at the predicate's value: for every
\* value, the empty one included, exists evaluates to 'the record has the
\* key' and not_exists to its negation.
C22_ExistsIgnoresValue ==
  (/\ Probed({"filterObjects"})
   /\ Truthy(ProbeFilter.property)
   /\ ProbeFilter.operator \in {Str(Op_exists), Str(Op_not_exists)})
    => (Selected <=> (HasKey(ProbeRecord, ProbeFilter.property.s)
                        <=> ProbeFilter.operator = Str(Op_exists)))

\* C23: existence is key presence: the record of a node that has the property
\* with the value null passes the existence test on that property (the
\* hasProperty filter, the exists operator) and fails not_exists.
C23_NullValuedPropertyExists ==
  (/\ Filtered({"hasProperty", "existsOnNode"})
   /\ HasKey(Entries(call.node), call.property)
   /\ GetProp(call.node, call.property) = Null)
    => (Len(ret.recs) = 1 <=> (call.fn = "hasProperty" \/ call.operator = Op_exists))

\* Two strings are the same but for the case of their letters.
SameIgnoringCase(s, t) ==
  Len(s) = Len(t) /\ \A i \in 1..Len(s) : LowerChar(s[i]) = LowerChar(t[i])

\* sub occurs in s but for the case of the letters.
ContainsIgnoringCase(s, sub) ==
  \E off \in 0..(Len(s) - Len(sub)) :
    SameIgnoringCase(SubSeq(s, off + 1, off + Len(sub)), sub)

\* C24: when the record has a value for the property, equals holds iff the
\* string form of the value and the filter value are identical once
\* lower-cased, includes iff the lower-cased filter value is a substring, and
\* not_equals / not_includes are their negations.
C24_CaseInsensitiveComparison ==
  (/\ Probed({"filterObjects"})
   /\ ~Ignored(ProbeFilter)
   /\ Prop(ProbeRecord, ProbeFilter.property).k \notin {"null", "undefined"}
   /\ ProbeFilter.operator \in
        {Str(Op_includes), Str(Op_not_includes), Str(Op_equals), Str(Op_not_equals)})
    => LET strValue == JSString(Prop(ProbeRecord, ProbeFilter.property))
           value == ProbeFilter.value.s
           op == ProbeFilter.operator.s
       IN Selected <=>
            CASE op = Op_equals -> SameIgnoringCase(strValue, value)
              [] op = Op_not_equals -> ~SameIgnoringCase(strValue, value)
              [] op = Op_includes -> ContainsIgnoringCase(strValue, value)
              [] op = Op_not_includes -> ~ContainsIgnoringCase(strValue, value)

\* The type 'rect' has been compared with equals 'RECT', and matched.
C24_Witness ==
  /\ Probed({"filterObjects"})
  /\ Get(ProbeRecord, K_type) = Str(S_rect)
  /\ ProbeFilter = Filter(Str(K_type), Str(Op_equals), Str(S_RECT))
  /\ Selected

\* ------------------------------------------------------------------------
\* Claims about the predicates that are ignored
\* ------------------------------------------------------------------------
\* The predicate has an empty property, or an empty value and an operator
\* other than exists / not_exists.
EmptyPredicate(filter) ==
  \/ ~Truthy(filter.property)
  \/ ~Truthy(filter.value) /\ filter.operator \notin {Str(Op_exists), Str(Op_not_exists)}

\* The list of filters without its j-th predicate.
WithoutPredicate(filters, j) ==
  Arr(SubSeq(filters.a, 1, j - 1) \o SubSeq(filters.a, j + 1, Len(filters.a)))

\* What the function called gives for other filters.
ResultFor(filters) ==
  CASE call.fn = "filterObjects" ->
         [recs |-> FilterObjects(call.objects, filters), err |-> FALSE]
    [] call.fn = "filterObjectsIncludes" ->
         [recs |-> FilterObjectsIncludes(call.objects, filters), err |-> FALSE]
    [] call.fn = "buildQuery" ->
         [query |-> BuildQuery(filters), err |-> FALSE]

\* C25: a predicate with an empty property, or with an empty value and an
\* operator other than exists / not_exists, is ignored: no error is raised
\* and the result is that of the same request without that predicate.
C25_EmptyPredicateIgnored ==
  (Filtered({"filterObjects", "filterObjectsIncludes", "buildQuery"})
   /\ call.filters.k = "array")
    => \A j \in 1..Len(call.filters.a) :
         EmptyPredicate(call.filters.a[j])
           => ~ret.err /\ ret = ResultFor(WithoutPredicate(call.filters, j))

\* A predicate on the type and one with an empty property have been applied
\* to the three records: the record of the group is the result.
C25_Witness ==
  /\ Filtered({"filterObjects"})
  /\ call.objects = FilterRecords
  /\ call.filters = Arr(<<Filter(Str(K_type), Str(Op_includes), Str(<<"g">>)),
                          Filter(Str(<<>>), Str(Op_includes), Str(<<"g">>))>>)
  /\ ret.recs = <<FilterRecords[2]>>

\* C26: filtering is idempotent: filtering the result of filterObjects again
\* with the same predicates gives the same records in the same order, for
\* each of the in-memory filters.
C26_FilterIdempotent ==
  Filtered({"filterObjectsTwice", "filterObjectsIncludesTwice"})
    => ret.twice = ret.once

\* The three records have been filtered twice on their type, and two are
\* left.
C26_Witness ==
  /\ Filtered({"filterObjectsTwice"})
  /\ call.objects = FilterRecords
  /\ call.filters = Arr(<<Filter(Str(K_type), Str(Op_includes), Str(<<"r">>))>>)
  /\ ret.twice = <<FilterRecords[1], FilterRecords[2]>>

\* ------------------------------------------------------------------------
\* Claims about the projection
\* ------------------------------------------------------------------------
\* The position of a column in the list of the request.
ColumnIndex(columns, key) == CHOOSE j \in 1..Len(columns) : columns[j] = key

\* The row holds requested columns only, in the order of the request, with
\* the record's value for each column the record has and nothing or null for
\* the others.
RowOf(row, rec, columns) ==
  /\ \A a \in 1..Len(row) : \E j \in 1..Len(columns) : columns[j] = row[a].key
  /\ \A a, b \in 1..Len(row) :
       a < b => ColumnIndex(columns, row[a].key) < ColumnIndex(columns, row[b].key)
  /\ \A j \in 1..Len(columns) :
       IF HasKey(rec, columns[j]) THEN Get(row, columns[j]) = Get(rec, columns[j])
       ELSE Get(row, columns[j]) \in {Undefined, Null}

\* C27: the projection on a list of columns gives one row per record in the
\* same order; the columns of each row are the requested columns in the order
\* of the list, whatever the order of the record's keys, with the record's
\* value where it has the column and null or nothing where it lacks it.
C27_ProjectionFollowsColumns ==
  (Filtered({"selectColumns", "mongoProject"}) /\ Len(call.columns.a) > 0)
    => /\ ~ret.err
       /\ Len(ret.recs) = Len(call.objects)
       /\ \A i \in 1..Len(call.objects) :
            RowOf(ret.recs[i], call.objects[i], call.columns.a)

\* ------------------------------------------------------------------------
\* Claims about the search requests
\* ------------------------------------------------------------------------
\* A GET /api/status of the local-folder server is answered.
LocalStatus == \E readdirFails \in BOOLEAN : LocalRequest(FALSE, readdirFails, {})

\* C28: search and status requests do not change the shared record set:
\* across such a request the cached records and the timestamp of the load
\* stay what the last load produced (a request of the local-folder server
\* that finds no cache is a load), and the rows handed to the caller are not
\* the record objects of the cache.
C28_QueriesDoNotMutate ==
  [][/\ (variant = "s3cache" /\ (query' # query \/ statusResp' # statusResp))
          => cache' = cache
     /\ (variant = "local" /\ (query' # query \/ LocalStatus) /\ localCache # NoDoc)
          => localCache' = localCache
     /\ (variant \in {"s3cache", "local"} /\ query' # query /\ query'.status = 200)
          => ~query'.shared]_vars

\* A search of the in-memory S3 server with no column has been answered with
\* rows, from a cache that a load has filled.
C28_Witness ==
  /\ variant = "s3cache"
  /\ query # NoDoc
  /\ query.status = 200
  /\ query.count > 0
  /\ query.columns = <<K_fileName, K_conrolTitle, K_type, K_className>>
  /\ cache.timestamp # Null

\* The request names no column: the list is missing or empty.
NoColumnSent == ~Truthy(call.columns) \/ Len(call.columns.a) = 0

\* The four columns of the default projection, whatever their order; the
\* title is the property 'conrolTitle' or 'controlTitle'.
DefaultProjection(columns) ==
  /\ Len(columns) = 4
  /\ \E title \in {K_conrolTitle, K_controlTitle} :
       {columns[i] : i \in 1..4} = {K_fileName, title, K_type, K_className}

\* C29: a search whose column list is empty or missing is answered with the
\* default projection: the columns of the answer are fileName, the control
\* title, type and className, and every row holds these columns only, in
\* each of the servers.
C29_DefaultProjection ==
  (/\ Filtered({"searchLocal", "searchCache", "searchMongo", "searchV1"})
   /\ NoColumnSent
   /\ ret.status = 200)
    => /\ DefaultProjection(ret.columns)
       /\ \A i \in 1..Len(ret.results) :
            KeySet(ret.results[i]) \subseteq {ret.columns[j] : j \in 1..Len(ret.columns)}
       /\ Len(ret.results) = Len(call.objects) =>
            \A i \in 1..Len(ret.results), j \in 1..Len(ret.columns) :
              Get(ret.results[i], ret.columns[j]) = Get(call.objects[i], ret.columns[j])

\* ------------------------------------------------------------------------
\* Claims about the page in the browser
\* ------------------------------------------------------------------------
\* C30: a search issued with no output column is rejected before the record
\* set is touched: the page shows its alert, no request is sent, the server's
\* cache and its last answer stay as they were, and so do the last results
\* and columns the page holds.
C30_NoColumnsRejected ==
  [][(client.alert = "none" /\ client'.alert = "columns")
       => /\ client'.pending = client.pending
          /\ client'.issued = client.issued
          /\ client'.lastResults = client.lastResults
          /\ client'.lastColumns = client.lastColumns
          /\ client'.table = client.table
          /\ UNCHANGED <<localCache, query, dir, clock>>]_vars

\* The page holds the rows of an earlier search and shows the alert of a
\* search with no column.
C30_Witness ==
  /\ client.alert = "columns"
  /\ client.lastResults.k = "array"
  /\ Len(client.lastResults.a) > 0
  /\ client.pending = <<>>

\* ------------------------------------------------------------------------
\* Claims about property discovery
\* ------------------------------------------------------------------------
\* The names are in strictly increasing order and are the keys of the records.
IsSortedUnion(names, recs) ==
  /\ \A i \in 1..Len(names) : \A j \in 1..Len(names) :
       i < j => StringBefore(names[i], names[j])
  /\ {names[i] : i \in 1..Len(names)} =
       UNION {{recs[r][e].key : e \in 1..Len(recs[r])} : r \in 1..Len(recs)}

\* C31: the property list that a status or refresh answer reports is the
\* duplicate-free, sorted union of the keys of the records held when the
\* answer is made, after any sequence of loads and refreshes.
C31_PropertiesOfCurrentRecords ==
  [][/\ statusResp' # statusResp
          => IsSortedUnion(statusResp'.properties, Recs(cache'.objects))
     /\ \A p \in Procs :
          (load'[p].resp # load[p].resp /\ load'[p].resp # NoDoc
             /\ load'[p].resp.status = 200)
          => IsSortedUnion(load'[p].resp.properties, Recs(cache'.objects))
     /\ (variant = "local" /\ localResp' # localResp /\ localResp'.status = 200)
          => IsSortedUnion(localResp'.properties, Recs(localCache'.objects))]_vars

\* A status answer lists several names of a record set of several records,
\* made while a later load is running.
C31_Witness ==
  /\ statusResp # NoDoc
  /\ Len(statusResp.properties) > 2
  /\ statusResp.objectCount > 1
  /\ statusResp.loading

\* ------------------------------------------------------------------------
\* Claims about the query of the persisted store
\* ------------------------------------------------------------------------
\* The answer of the store search called to a request with other filters.
StoreAnswer(filters) ==
  IF call.fn = "searchMongo" THEN AnswerMongo(call.objects, filters, call.columns)
  ELSE AnswerMongoV2(call.objects, filters, call.columns)

\* The stored record satisfies the predicate: the predicate is ignored, or
\* the search with this predicate alone finds the record.
Satisfies(doc, filter) ==
  \/ ~Truthy(filter.property) \/ ~Truthy(filter.value)
  \/ LET alone == Arr(<<filter>>) IN
     IF call.fn = "searchMongo" THEN MongoMatches(doc, MongoQuery(alone))
     ELSE QueryMatches(doc, BuildQuery(alone))

\* C32: the search of the persisted store returns the stored records that
\* satisfy every non-ignored predicate of the request, also when two
\* predicates name the same property.
C32_StoreQueryIsConjunction ==
  Filtered({"searchMongo", "searchMongoV2"})
    => LET every == SelectSeq(call.objects,
                      LAMBDA doc : \A j \in 1..Len(PredicatesOf(call.filters)) :
                                     Satisfies(doc, PredicatesOf(call.filters)[j]))
       IN /\ ret.status = 200
          /\ ret.count = Len(every)
          /\ ret.results = [j \in 1..Len(every) |-> MongoProject(every[j], ret.columns)]

\* ------------------------------------------------------------------------
\* Claims about the table and the CSV export
\* ------------------------------------------------------------------------
Presented == variant = "pure" /\ call.fn = "present" /\ ret # NoDoc

Min(a, b) == IF a < b THEN a ELSE b

\* The lines of a text that ends each line with a line feed.
SplitLines(text) ==
  LET ends == {i \in 1..Len(text) : text[i] = "\n"}
      EndOf(k) == IF k = 0 THEN 0
                  ELSE CHOOSE e \in ends : Cardinality({f \in ends : f <= e}) = k
  IN [k \in 1..Cardinality(ends) |-> SubSeq(text, EndOf(k - 1) + 1, EndOf(k) - 1)]

\* The texts of the cells of a row under the columns.
Cells(row, columns) == [j \in 1..Len(columns) |-> JSString(Get(row, columns[j]))]

\* C33: the table shows the first min(n, 100) rows of a result of n rows, and
\* the CSV export holds the header and all the n rows of that result, in the
\* same order.
C33_PreviewCappedExportWhole ==
  Presented
    => LET rows == call.data.results
           columns == call.data.columns
           lines == SplitLines(ret.csv)
       IN /\ Len(ret.table.body) = Min(Len(rows), 100)
          /\ \A i \in 1..Len(ret.table.body) : ret.table.body[i] = Cells(rows[i], columns)
          /\ Len(lines) = Len(rows) + 1
          /\ lines[1] = JoinComma(columns)
          /\ \A i \in 1..Len(rows) : lines[i + 1] = JoinComma(Cells(rows[i], columns))

\* A result of more than 100 rows has been presented.
C33_Witness ==
  /\ Presented
  /\ Len(call.data.results) > 100
  /\ Len(ret.table.body) = 100
  /\ Len(SplitLines(ret.csv)) > 101

\* A CSV reader (RFC 4180): the records of a text, each the sequence of its
\* fields. A field that begins with a double quote runs to the closing double
\* quote, two double quotes inside standing for one; a line without any
\* character is read as one empty field.
RECURSIVE ReadCSV(_, _, _, _, _)
ReadCSV(text, field, record, quoted, atStart) ==
  IF Len(text) = 0
  THEN IF field = <<>> /\ record = <<>> /\ atStart THEN <<>> ELSE <<Append(record, field)>>
  ELSE LET c == Head(text) IN
       IF quoted
       THEN IF c = "\"" /\ Len(text) > 1 /\ text[2] = "\""
            THEN ReadCSV(SubSeq(text, 3, Len(text)), Append(field, "\""), record, TRUE, FALSE)
            ELSE IF c = "\""
            THEN ReadCSV(Tail(text), field, record, FALSE, FALSE)
            ELSE ReadCSV(Tail(text), Append(field, c), record, TRUE, FALSE)
       ELSE IF c = "\"" /\ atStart
            THEN ReadCSV(Tail(text), field, record, TRUE, FALSE)
            ELSE IF c = ","
            THEN ReadCSV(Tail(text), <<>>, Append(record, field), FALSE, TRUE)
            ELSE IF c = "\n"
            THEN <<Append(record, field)>> \o ReadCSV(Tail(text), <<>>, <<>>, FALSE, TRUE)
            ELSE ReadCSV(Tail(text), Append(field, c), record, FALSE, FALSE)

Exported == variant = "pure" /\ call.fn = "downloadCSV" /\ ret # NoDoc

\* The string value of a cell: empty for null and for an absent property.
StringValue(v) == IF v.k \in {"null", "undefined"} THEN <<>> ELSE JSString(v)

\* C34: reading the exported document with a CSV reader gives the columns as
\* the first record and then, for every row in order, the string values of
\* its cells in the order of the columns, null and absent values as empty
\* fields.
C34_CSVRoundTrip ==
  Exported
    => LET records == ReadCSV(ret.csv, <<>>, <<>>, FALSE, TRUE) IN
       /\ Len(records) = Len(call.results) + 1
       /\ records[1] = call.columns
       /\ \A i \in 1..Len(call.results) :
            records[i + 1] = [j \in 1..Len(call.columns) |->
                                StringValue(Get(call.results[i], call.columns[j]))]

\* ------------------------------------------------------------------------
\* Claims about the progress notifications
\* ------------------------------------------------------------------------
\* C35: an observer that raises on a notification does not fail the sync:
\* the pass is not ended by what the observer raised, at whatever stage.
C35_ObserverNeverFailsSync ==
  \A p \in Procs : hist[p].threw # "none" => sync[p].pc # "error"

\* ------------------------------------------------------------------------
\* Claims about the files that fail in a load
\* ------------------------------------------------------------------------
\* The records that come from the file n are none, or those that came from
\* it before.
NoneOrAsBefore(now, before, n) ==
  \/ ProducedFrom(now, n) = <<>>
  \/ ProducedFrom(now, n) = ProducedFrom(before, n)

FailedLocal ==
  (variant = "local" /\ localCache' # localCache /\ hist'[1].loaded)
    => \A n \in hist'[1].failed :
         NoneOrAsBefore(localCache'.objects,
                        IF localCache = NoDoc THEN <<>> ELSE localCache.objects, n)

FailedCache ==
  \A p \in Procs :
    (variant = "s3cache" /\ LoadRunning(p) /\ load'[p].pc = "done")
      => \A n \in hist'[p].failed : NoneOrAsBefore(cache'.objects, cache.objects, n)

FailedStore ==
  \A p \in Procs :
    (variant = "mongo" /\ Running(p) /\ sync'[p].pc = "done")
      => \A n \in hist'[p].failed : NoneOrAsBefore(objects', hist'[p].preObjects, n)

\* C36: a file whose processing fails contributes no record to the record
\* set: after a bulk load or a sync pass the records of a failed file are
\* none or exactly those loaded from it before, never the first records of a
\* document whose traversal failed part-way.
C36_FailedFileContributesNothing ==
  [][FailedLocal /\ FailedCache /\ FailedStore]_vars

\* ------------------------------------------------------------------------
\* Claims about the consistency of the store
\* ------------------------------------------------------------------------
\* C37: between sync passes, every File Metadata entry's objectCount is the
\* number of stored records with that fileName, and every stored record has
\* the fileName of a File Metadata entry.
C37_StoreConsistent ==
  (variant = "mongo" /\ \A p \in Procs : ~Running(p))
    => /\ \A n \in DOMAIN fileMetadata :
            fileMetadata[n].objectCount = Len(StoredUnder(objects, n))
       /\ \A i \in 1..Len(objects) :
            \E n \in DOMAIN fileMetadata : RecFileName(objects[i].rec) = Str(n)

\* ------------------------------------------------------------------------
\* Claims about the answers to refresh requests
\* ------------------------------------------------------------------------
\* The request of p is answered with status 200 in this step.
RefreshAnswered(p) ==
  /\ load'[p].pc = "done"
  /\ load[p].pc # "done" \/ load'[p].resp # load[p].resp
  /\ load'[p].resp.status = 200

\* C38: a successful answer to a refresh request reports the record count,
\* the file count and the timestamp of a load that started after the request
\* arrived: the answer is given when the load that the request started
\* completes, and carries what that load stored. For the local-folder server
\* the answer carries the load that the handler has just run.
C38_RefreshAnswersOwnLoad ==
  [][/\ \A p \in Procs :
          (variant = "s3cache" /\ RefreshAnswered(p))
            => /\ LoadRunning(p)
               /\ load'[p].resp.lastLoaded = Num(clock')
               /\ load'[p].resp.objectCount = Len(load'[p].allObjects)
               /\ load'[p].resp.fileCount = Len(load'[p].files)
     /\ (variant = "local" /\ hist'[1].loaded /\ localResp' # localResp)
            => /\ localResp'.lastLoaded = Num(clock')
               /\ localResp'.objectCount = Len(localCache'.objects)]_vars

\* C39: at most one search request of the page is in flight at a time, and
\* when none is in flight the results and columns that the page holds are
\* those of the search sent last.
C39_OneSearchInFlight ==
  /\ Len(client.pending) <= 1
  /\ (client.pending = <<>> /\ client.issued > 0) => client.lastOf = client.issued

====
